---- MODULE Spec2Model ----
(***************************************************************************)
(* Model of the voice-over-UDP session layer of briandthi/voc:             *)
(*   - JitterBuffer (crates/network/src/manager.rs), on its own;           *)
(*   - UdpNetworkManager over UdpTransport: one manager facing any network *)
(*     and any other host (Spec), and a listener and a connecting manager  *)
(*     on a network that delivers (SpecPair); a connecting manager alone   *)
(*     (SpecClient, SpecClientReliable), with its receive loop running as  *)
(*     a task (SpecClientFair); a listener and a connecting manager both   *)
(*     in their receive loops (SpecHandshakes).                            *)
(*   - the components below the manager, each driven on its own: the       *)
(*     packet checksum (SpecChecksum), UdpTransport (SpecUdp),             *)
(*     SimulatedTransport (SpecSim), CpalPlayback with its output callback *)
(*     (SpecPlayback), CpalCapture with its input callback (SpecCapture),  *)
(*     and AudioPipelineImpl starting and stopping the two (SpecPipeline). *)
(* Time is not counted: a deadline is a flag that a step of its own sets.  *)
(* Sequence numbers are u64 in the source; the model draws them from       *)
(* 0..MaxSeq, far below 2^64, so no arithmetic here can wrap.              *)
(***************************************************************************)
EXTENDS Integers, Sequences, FiniteSets, TLC

\* ------------------------------------------------------------------ bounds
\* Largest sequence number a packet carries in the model.
MaxSeq == 5
\* Payload tags 0..MaxData tell apart two packets that carry one sequence.
MaxData == 1
\* Largest max_size a jitter buffer is constructed with.
MaxCapacity == 3
\* Number of push_packet calls explored on the stand-alone jitter buffer.
MaxPush == 4

\* ------------------------------------------------------------- helper maps
\* BTreeMap<u64, NetworkPacket>: a function whose domain is the set of keys.
EmptyMap == [k \in {} |-> 0]

MapInsert(m, key, val) == [k \in (DOMAIN m) \cup {key} |-> IF k = key THEN val ELSE m[k]]

MapRemove(m, key) == [k \in (DOMAIN m) \ {key} |-> m[k]]

SetMin(S) == CHOOSE x \in S : \A y \in S : x <= y

\* Option<T>: None is the empty sequence, Some(x) the one-element sequence.
None == <<>>

Some(x) == <<x>>

\* ----------------------------------------------------------------- packets
PacketTypes == {"Audio", "Heartbeat", "Handshake", "Disconnect"}

\* NetworkPacket::new_audio: an Audio packet around a compressed frame.
new_audio(sequence_number, data, sender_id, session_id) ==
    [packet_type |-> "Audio", sender_id |-> sender_id, session_id |-> session_id,
     sequence_number |-> sequence_number, data |-> data]

\* ------------------------------------------------------------ JitterBuffer
\* JitterBuffer::new
JitterBuffer_new(max_size) ==
    [packets |-> EmptyMap, max_size |-> max_size,
     expected_sequence |-> 1, lost_packets |-> 0]

\* Mutant of push_packet: the duplicate test is missing, a second packet with a
\* stored sequence replaces the stored one.
push_packet_no_duplicate_test(jb, packet) ==
    LET sequence == packet.sequence_number
        full == Cardinality(DOMAIN jb.packets) >= jb.max_size
        kept == IF full /\ DOMAIN jb.packets # {}
                THEN MapRemove(jb.packets, SetMin(DOMAIN jb.packets))
                ELSE jb.packets
    IN  IF sequence < jb.expected_sequence
        THEN [jb |-> jb, ret |-> FALSE]
        ELSE [jb |-> [jb EXCEPT !.packets = MapInsert(kept, sequence, packet)],
              ret |-> TRUE]

\* Mutant of push_packet: a full buffer evicts nothing.
push_packet_no_eviction(jb, packet) ==
    LET sequence == packet.sequence_number
    IN  IF sequence < jb.expected_sequence \/ sequence \in DOMAIN jb.packets
        THEN [jb |-> jb, ret |-> FALSE]
        ELSE [jb |-> [jb EXCEPT !.packets = MapInsert(jb.packets, sequence, packet)],
              ret |-> TRUE]

\* Mutant of push_packet: the test against expected_sequence is missing, a packet
\* older than the expected one is stored.
push_packet_no_stale_test(jb, packet) ==
    LET sequence == packet.sequence_number
        full == Cardinality(DOMAIN jb.packets) >= jb.max_size
        kept == IF full /\ DOMAIN jb.packets # {}
                THEN MapRemove(jb.packets, SetMin(DOMAIN jb.packets))
                ELSE jb.packets
    IN  IF sequence \in DOMAIN jb.packets
        THEN [jb |-> jb, ret |-> FALSE]
        ELSE [jb |-> [jb EXCEPT !.packets = MapInsert(kept, sequence, packet)],
              ret |-> TRUE]

\* JitterBuffer::push_packet: the buffer after the call and the returned bool.
push_packet(jb, packet) ==
    LET sequence == packet.sequence_number
        full == Cardinality(DOMAIN jb.packets) >= jb.max_size
        kept == IF full /\ DOMAIN jb.packets # {}
                THEN MapRemove(jb.packets, SetMin(DOMAIN jb.packets))
                ELSE jb.packets
    IN  IF sequence < jb.expected_sequence \/ sequence \in DOMAIN jb.packets
        THEN [jb |-> jb, ret |-> FALSE]
        ELSE [jb |-> [jb EXCEPT !.packets = MapInsert(kept, sequence, packet)],
              ret |-> TRUE]

\* Mutant of pop_packet: a hit on the expected sequence does not advance
\* expected_sequence.
pop_packet_no_advance(jb) ==
    IF jb.packets = EmptyMap
    THEN [jb |-> jb, ret |-> None]
    ELSE LET s == SetMin(DOMAIN jb.packets)
         IN  [jb |-> [jb EXCEPT !.packets = MapRemove(@, s),
                                !.lost_packets = @ + (IF s > jb.expected_sequence
                                                      THEN s - jb.expected_sequence ELSE 0),
                                !.expected_sequence = IF s > @ THEN s + 1 ELSE @],
              ret |-> Some(jb.packets[s])]

\* Mutant of pop_packet: a gap counts one lost packet however many slots it skips.
RECURSIVE pop_packet_one_loss_per_gap(_)
pop_packet_one_loss_per_gap(jb) ==
    IF jb.expected_sequence \in DOMAIN jb.packets
    THEN [jb |-> [jb EXCEPT !.packets = MapRemove(@, jb.expected_sequence),
                            !.expected_sequence = @ + 1],
          ret |-> Some(jb.packets[jb.expected_sequence])]
    ELSE IF \E seq \in DOMAIN jb.packets : seq > jb.expected_sequence
         THEN pop_packet_one_loss_per_gap(
                  [jb EXCEPT !.lost_packets = jb.lost_packets + 1,
                             !.expected_sequence = SetMin(DOMAIN jb.packets)])
         ELSE [jb |-> jb, ret |-> None]

\* Mutant of pop_packet: a skipped slot is not counted in lost_packets.
RECURSIVE pop_packet_uncounted_gap(_)
pop_packet_uncounted_gap(jb) ==
    IF jb.expected_sequence \in DOMAIN jb.packets
    THEN [jb |-> [jb EXCEPT !.packets = MapRemove(@, jb.expected_sequence),
                            !.expected_sequence = @ + 1],
          ret |-> Some(jb.packets[jb.expected_sequence])]
    ELSE IF \E seq \in DOMAIN jb.packets : seq > jb.expected_sequence
         THEN pop_packet_uncounted_gap([jb EXCEPT !.expected_sequence = @ + 1])
         ELSE [jb |-> jb, ret |-> None]

\* JitterBuffer::pop_packet: the buffer after the call and the returned Option.
RECURSIVE pop_packet(_)
pop_packet(jb) ==
    IF jb.expected_sequence \in DOMAIN jb.packets
    THEN [jb |-> [jb EXCEPT !.packets = MapRemove(@, jb.expected_sequence),
                            !.expected_sequence = @ + 1],
          ret |-> Some(jb.packets[jb.expected_sequence])]
    ELSE IF \E seq \in DOMAIN jb.packets : seq > jb.expected_sequence
         THEN pop_packet([jb EXCEPT !.lost_packets = @ + 1,
                                    !.expected_sequence = @ + 1])
         ELSE [jb |-> jb, ret |-> None]

\* ------------------------------------------------------------ more bounds
\* Datagrams a socket's receive queue holds; a datagram arriving beyond it is dropped.
NetCap == 1
\* Datagrams that other hosts put on the network.
MaxEnv == 3
\* API calls a manager starts.
MaxCalls == 3
\* config.receive_buffer_size: capacity of the audio channel and of the manager's
\* jitter buffer (100 by default, scaled down).
ReceiveBufferSize == 1
\* Largest sequence number of an Audio packet put on the network from outside.
MaxNetSeq == 2
\* packets_sent of a transport is followed up to this count and stays there.
MaxSent == 8

\* --------------------------------------------------------------- addresses
\* The two hosts that run a UdpNetworkManager.
Mgr == {"A", "B"}

\* All socket addresses: the managers' and one further host.
Addr == Mgr \cup {"X"}

NoAddr == "none"

\* session_id and sender_id drawn once in with_transport.
session_id_of(a) == CASE a = "A" -> 11 [] a = "B" -> 22 [] OTHER -> 33

sender_id_of(a) == CASE a = "A" -> 1 [] a = "B" -> 2 [] OTHER -> 3

\* --------------------------------------------------------- ConnectionState
\* heartbeat_overdue stands for last_heartbeat.elapsed() > config.heartbeat_timeout.
Disconnected ==
    [tag |-> "Disconnected", peer |-> NoAddr, attempt_count |-> 0, session_id |-> 0,
     heartbeat_overdue |-> FALSE]

Connecting(target_addr) ==
    [tag |-> "Connecting", peer |-> target_addr, attempt_count |-> 1, session_id |-> 0,
     heartbeat_overdue |-> FALSE]

Connected(addr, session_id) ==
    [tag |-> "Connected", peer |-> addr, attempt_count |-> 0, session_id |-> session_id,
     heartbeat_overdue |-> FALSE]

\* ConnectionState::Error, which no code of the crate constructs.
Error ==
    [tag |-> "Error", peer |-> NoAddr, attempt_count |-> 0, session_id |-> 0,
     heartbeat_overdue |-> FALSE]

\* Mutant of is_connected: Connecting passes for connected.
is_connected_or_connecting(state) == state.tag \in {"Connected", "Connecting"}

\* ConnectionState::is_connected
is_connected(state) == state.tag = "Connected"

\* ConnectionState::peer_addr
peer_addr(state) ==
    IF state.tag \in {"Connected", "Connecting"} THEN Some(state.peer) ELSE None

\* ----------------------------------------------------------------- packets
\* create_handshake_packet
create_handshake_packet(m) ==
    [packet_type |-> "Handshake", sender_id |-> sender_id_of(m),
     session_id |-> session_id_of(m), sequence_number |-> 0, data |-> 0]

\* create_disconnect_packet
create_disconnect_packet(m) ==
    [packet_type |-> "Disconnect", sender_id |-> sender_id_of(m),
     session_id |-> session_id_of(m), sequence_number |-> 0, data |-> 0]

\* A datagram in a socket's receive queue: the source address, the bytes'
\* condition (well-formed, checksum mismatch, undecodable) and the packet they carry.
Datagram(src, kind, packet) == [src |-> src, kind |-> kind, packet |-> packet]

\* UdpTransport::deserialize_packet: what receive_packet returns for a datagram.
\* A decoded packet's send_timestamp is the time of decoding, so none is too old.
deserialize_packet(d) ==
    CASE d.kind = "malformed" -> "InvalidPacketFormat"
      [] d.kind = "corrupt"   -> "CorruptedPacket"
      [] OTHER                -> "Ok"

\* ------------------------------------------------- the packet as transmitted
\* Integer widths are scaled: a byte has ByteBits bits and a u32 is four bytes, so
\* that `as u32` truncates and from_le_bytes packs as in the source.
ByteBits == 2

Byte == 2 ^ ByteBits

U32 == Byte ^ 4

\* `as u32` keeps the low bits of a wider integer.

as_u32(x) == x % U32

\* a ^ b on naturals
RECURSIVE xor(_, _)
xor(a, b) ==
    IF a = 0 THEN b
    ELSE IF b = 0 THEN a
    ELSE (((a % 2) + (b % 2)) % 2) + 2 * xor(a \div 2, b \div 2)

\* PacketType as u32 (#[repr(u8)])
packet_type_code(t) ==
    CASE t = "Audio" -> 1 [] t = "Heartbeat" -> 2 [] t = "Handshake" -> 3 [] t = "Disconnect" -> 4

\* u32::from_le_bytes of a chunk of at most 4 bytes, the missing ones being 0
RECURSIVE from_le_bytes(_)
from_le_bytes(chunk) ==
    IF chunk = <<>> THEN 0 ELSE Head(chunk) + Byte * from_le_bytes(Tail(chunk))

\* the fold of calculate_checksum over data.chunks(4)
RECURSIVE xor_chunks(_, _)
xor_chunks(checksum, data) ==
    IF data = <<>> THEN checksum
    ELSE LET n == IF Len(data) < 4 THEN Len(data) ELSE 4
         IN  xor_chunks(xor(checksum, from_le_bytes(SubSeq(data, 1, n))),
                        SubSeq(data, n + 1, Len(data)))

\* NetworkPacket::calculate_checksum
calculate_checksum(p) ==
    xor_chunks(
        xor(xor(xor(xor(xor(xor(0, p.protocol_version), packet_type_code(p.packet_type)),
                        p.sender_id), p.session_id),
                as_u32(p.sequence_number)), as_u32(p.original_sample_count)),
        p.data)

\* NetworkPacket::verify_checksum
verify_checksum(p) == p.checksum = calculate_checksum(p)

\* The checksummed content of a packet: every field but checksum and send_timestamp.
Content(p) ==
    [protocol_version |-> p.protocol_version, packet_type |-> p.packet_type,
     sender_id |-> p.sender_id, session_id |-> p.session_id,
     sequence_number |-> p.sequence_number,
     original_sample_count |-> p.original_sample_count, data |-> p.data]

\* A NetworkPacket with every field of the struct; send_timestamp is the time of
\* construction on the clock of the process that holds the packet.
NetworkPacket(content, send_timestamp, checksum) ==
    content @@ [send_timestamp |-> send_timestamp, checksum |-> checksum]

\* NetworkPacket::new_audio and new_heartbeat: version 1, checksum computed.
NetworkPacket_new(packet_type, sender_id, session_id, sequence_number, original_sample_count, data, now) ==
    LET content == [protocol_version |-> 1, packet_type |-> packet_type,
                    sender_id |-> sender_id, session_id |-> session_id,
                    sequence_number |-> sequence_number,
                    original_sample_count |-> original_sample_count, data |-> data]
    IN  NetworkPacket(content, now, calculate_checksum(content))

\* ------------------------------------------------------------------- state
VARIABLES
    buffer,        \* a JitterBuffer driven directly, as in manager.rs's unit tests
    jb_last,       \* the last call on it: operation, argument, result, buffer before
    jb_yielded,    \* sequence numbers of the packets pop_packet has returned, in order
    jb_pushes,     \* number of push_packet calls
    jb_accepted,   \* number of push_packet calls that returned true
    jb_full_accepted, \* number of those made on a buffer holding max_size packets
    jb_stale,      \* number of push_packet calls with a sequence below expected_sequence
    conn,          \* conn[m]: UdpNetworkManager.connection_state
    bound,         \* bound[m]: UdpTransport.socket.is_some()
    sequence_counter, \* sequence_counter[m]
    receive_buffer,   \* receive_buffer[m]: the manager's JitterBuffer
    audio_chan,    \* audio_chan[m]: frames held by the mpsc channel behind audio_sender
    pc,            \* pc[m]: where manager m's current API call stands
    deadline_passed, \* deadline_passed[m]: perform_handshake's start_time.elapsed() >= connection_timeout
    ret,           \* ret[m]: the last API call and what it returned
    calls,         \* calls[m]: API calls started
    net,           \* net[m]: receive queue of m's socket
    tx,            \* tx[m]: packets m's transport sent (count, last packet type and target)
    env_sent,      \* datagrams put on the network by other hosts
    ck,            \* a packet, a copy of it as received, and verify_checksum of the copy
    udp,           \* a UdpTransport driven directly, with the datagrams waiting in its socket
    sim,           \* a SimulatedTransport driven directly
    playback,      \* a CpalPlayback: control task and output callback
    capture,       \* a CpalCapture: input callback and the task calling next_frame
    pipeline       \* an AudioPipelineImpl over that playback and that capture

jbvars == <<buffer, jb_last, jb_yielded, jb_pushes, jb_accepted, jb_full_accepted, jb_stale>>

mgrvars == <<conn, bound, sequence_counter, receive_buffer, audio_chan, pc,
             deadline_passed, ret, calls, net, tx, env_sent>>

compvars == <<ck, udp, sim, playback, capture, pipeline>>

vars == <<jbvars, mgrvars, compvars>>

\* ------------------------------------------- components driven on their own
\* NetworkStats::new, the counters the transports write
NetworkStats_new ==
    [packets_sent |-> 0, packets_received |-> 0, packets_lost |-> 0, packets_corrupted |-> 0]

\* No call made yet on a component.
NoOp == [op |-> "new", result |-> "Ok", value |-> None]

\* UdpTransport::new, with nothing waiting in the socket
UdpTransport_new ==
    [socket |-> None, local_addr |-> None, is_active |-> FALSE,
     stats |-> NetworkStats_new, wire |-> <<>>, ops |-> 0, last |-> NoOp]

\* SimulatedTransport::new
SimulatedTransport_new ==
    [is_active |-> FALSE, local_addr |-> None, loss_rate |-> "zero",
     receive_queue |-> <<>>, stats |-> NetworkStats_new,
     ops |-> 0, sends_ok |-> 0, received |-> <<>>, last |-> NoOp]

\* CpalPlayback::new and the state captured by the output callback in
\* build_stream. task is where the control task's current call stands, callback
\* where the output callback stands; accepted, consumed and removed record the
\* sequence numbers of the frames play_frame queued, the callback took, and the
\* overflow policy or flush_buffer discarded. stream is stream.is_some().
CpalPlayback_new ==
    [frame_buffer |-> <<>>, stream |-> FALSE, is_playing |-> FALSE,
     frames_played |-> 0, underruns |-> 0,
     output_buffer |-> <<>>,
     task |-> [at |-> "idle", frame |-> 0],
     callback |-> [at |-> "idle", need |-> 0, why |-> "none"],
     output |-> <<>>, callbacks |-> 0, calls |-> 0, next_seq |-> 1,
     accepted |-> <<>>, consumed |-> <<>>, removed |-> {}, rejected |-> {},
     last |-> NoOp]

\* CpalCapture::new and the state captured by the input callback in build_stream
\* queue is the mpsc channel between the callback and next_frame, sample_buffer
\* the number of samples the callback has gathered; frames counts the frames the
\* callback completed, dropped those try_send refused.
CpalCapture_new(config) ==
    [config |-> config, stream |-> FALSE, is_recording |-> FALSE, queue |-> <<>>,
     sample_buffer |-> 0, sequence_counter |-> 0,
     callback |-> [at |-> "idle", data |-> 0],
     callbacks |-> 0, calls |-> 0, frames |-> 0, dropped |-> 0,
     step |-> "new", last |-> NoOp]

\* AudioPipelineImpl::new, over the playback and the capture above. task is where
\* the current call of start or stop stands.
AudioPipelineImpl_new ==
    [is_running |-> FALSE, task |-> "idle", calls |-> 0, last |-> NoOp]

\* Every component as constructed; the capture with AudioConfig::default.
InitComponents ==
    /\ ck = [at |-> "none"]
    /\ udp = UdpTransport_new
    /\ sim = SimulatedTransport_new
    /\ playback = CpalPlayback_new
    /\ capture = CpalCapture_new([sample_rate |-> 48000, frame_duration_ms |-> 20, channels |-> 1])
    /\ pipeline = AudioPipelineImpl_new

\* UdpNetworkManager::with_transport for both managers, nothing on the network.
InitManagers ==
    /\ conn = [m \in Mgr |-> Disconnected]
    /\ bound = [m \in Mgr |-> FALSE]
    /\ sequence_counter = [m \in Mgr |-> 0]
    /\ receive_buffer = [m \in Mgr |-> JitterBuffer_new(ReceiveBufferSize)]
    /\ audio_chan = [m \in Mgr |-> 0]
    /\ pc = [m \in Mgr |-> "idle"]
    /\ deadline_passed = [m \in Mgr |-> FALSE]
    /\ ret = [m \in Mgr |-> [op |-> "new", result |-> "Ok", frame |-> None]]
    /\ calls = [m \in Mgr |-> 0]
    /\ net = [m \in Mgr |-> <<>>]
    /\ tx = [m \in Mgr |-> [count |-> 0, packet_type |-> "none", to |-> NoAddr]]
    /\ env_sent = 0

\* ------------------------------------------------ stand-alone jitter buffer
NoCall == [op |-> "new", packet |-> None, ok |-> FALSE, out |-> None]

InitJB ==
    /\ \E max_size \in 1..MaxCapacity : buffer = JitterBuffer_new(max_size)
    /\ jb_last = [NoCall EXCEPT !.op = "new"] @@ [pre |-> buffer]
    /\ jb_yielded = <<>>
    /\ jb_pushes = 0
    /\ jb_accepted = 0
    /\ jb_full_accepted = 0
    /\ jb_stale = 0
    /\ InitManagers
    /\ InitComponents

\* buffer.push_packet(packet) with any Audio packet
JBPush ==
    /\ jb_pushes < MaxPush
    /\ \E sequence \in 0..MaxSeq, data \in 0..MaxData :
         LET packet == new_audio(sequence, data, 123, 456)
             r == push_packet(buffer, packet)
             was_full == Cardinality(DOMAIN buffer.packets) >= buffer.max_size
         IN  /\ buffer' = r.jb
             /\ jb_last' = [op |-> "push", packet |-> Some(packet), ok |-> r.ret,
                            out |-> None, pre |-> buffer]
             /\ jb_pushes' = jb_pushes + 1
             /\ jb_accepted' = jb_accepted + (IF r.ret THEN 1 ELSE 0)
             /\ jb_full_accepted' = jb_full_accepted + (IF r.ret /\ was_full THEN 1 ELSE 0)
             /\ jb_stale' = jb_stale + (IF sequence < buffer.expected_sequence THEN 1 ELSE 0)
             /\ UNCHANGED <<jb_yielded, mgrvars, compvars>>

\* buffer.pop_packet()
JBPop ==
    LET r == pop_packet(buffer)
    IN  /\ buffer' = r.jb
        /\ jb_last' = [op |-> "pop", packet |-> None, ok |-> r.ret # None,
                       out |-> r.ret, pre |-> buffer]
        /\ jb_yielded' = IF r.ret = None THEN jb_yielded
                         ELSE Append(jb_yielded, r.ret[1].sequence_number)
        /\ UNCHANGED <<jb_pushes, jb_accepted, jb_full_accepted, jb_stale, mgrvars, compvars>>

NextJB == JBPush \/ JBPop

SpecJB == InitJB /\ [][NextJB]_vars

\* ------------------------------------------------------------ the transport
\* What becomes of a packet handed to UdpTransport::send_packet: send_to fails
\* ("failed"), or the datagram is sent and lost on the way ("lost"), or it reaches
\* the target host ("delivered").
SendOutcomes == {"failed", "lost", "delivered"}

\* What the hosts' network and operating system may do: any outcome of a send,
\* a bind that succeeds or fails.
Faulty == [send |-> SendOutcomes, bind |-> BOOLEAN]

\* A network that delivers every datagram sent, a bind that succeeds.
Reliable == [send |-> {"delivered"}, bind |-> {TRUE}]

\* send_packet needs a bound socket.
send_result(m, outcome) == IF ~bound[m] THEN "failed" ELSE outcome

\* The receive queues after m's send_packet(packet, to) with that outcome: a delivered datagram is
\* queued when the target has a bound socket with room, and dropped otherwise.
net_after_send(net0, m, packet, to, outcome) ==
    IF outcome = "delivered" /\ to \in Mgr /\ bound[to] /\ Len(net0[to]) < NetCap
    THEN [net0 EXCEPT ![to] = Append(@, Datagram(m, "ok", packet))]
    ELSE net0

\* update_send_stats after a successful send_to, with the packet last sent. The
\* count is exact below MaxSent.
tx_after_send(m, packet, to, outcome) ==
    IF outcome = "failed" THEN tx
    ELSE [tx EXCEPT ![m] = [count |-> IF @.count < MaxSent THEN @.count + 1 ELSE @.count,
                            packet_type |-> packet.packet_type, to |-> to]]

\* -------------------------------------------------- UdpNetworkManager helpers
\* check_heartbeat_timeout
check_heartbeat_timeout(state) == state.tag = "Connected" /\ state.heartbeat_overdue

\* update_last_heartbeat
update_last_heartbeat(state) ==
    IF state.tag = "Connected" THEN [state EXCEPT !.heartbeat_overdue = FALSE] ELSE state

\* The drain loop of handle_received_packet: pop packets and send each frame into
\* the audio channel, whose receiver is never read; a send into the full channel
\* never completes.
RECURSIVE drain(_, _)
drain(jb, chan) ==
    LET r == pop_packet(jb)
    IN  IF r.ret = None THEN [jb |-> r.jb, chan |-> chan, blocked |-> FALSE]
        ELSE IF chan >= ReceiveBufferSize THEN [jb |-> r.jb, chan |-> chan, blocked |-> TRUE]
        ELSE drain(r.jb, chan + 1)

\* Mutant of handle_received_packet: a Handshake is not answered.
handle_received_packet_no_reply(m, packet, source, net0, outcome) ==
    LET same == [conn |-> conn[m], receive_buffer |-> receive_buffer[m],
                 audio_chan |-> audio_chan[m], net |-> net0, tx |-> tx, result |-> "Ok"]
    IN  CASE packet.packet_type = "Audio" ->
               LET pushed == push_packet(receive_buffer[m], packet)
                   d == IF pushed.ret THEN drain(pushed.jb, audio_chan[m])
                        ELSE [jb |-> pushed.jb, chan |-> audio_chan[m], blocked |-> FALSE]
               IN  [same EXCEPT !.receive_buffer = d.jb, !.audio_chan = d.chan,
                                !.result = IF d.blocked THEN "blocked" ELSE "Ok"]
          [] packet.packet_type = "Heartbeat" ->
               [same EXCEPT !.conn = update_last_heartbeat(conn[m])]
          [] packet.packet_type = "Handshake" -> same
          [] OTHER -> [same EXCEPT !.conn = Disconnected]

\* Mutant of handle_received_packet: a Handshake also refreshes last_heartbeat.
handle_received_packet_handshake_refreshes(m, packet, source, net0, outcome) ==
    LET same == [conn |-> conn[m], receive_buffer |-> receive_buffer[m],
                 audio_chan |-> audio_chan[m], net |-> net0, tx |-> tx, result |-> "Ok"]
    IN  CASE packet.packet_type = "Audio" ->
               LET pushed == push_packet(receive_buffer[m], packet)
                   d == IF pushed.ret THEN drain(pushed.jb, audio_chan[m])
                        ELSE [jb |-> pushed.jb, chan |-> audio_chan[m], blocked |-> FALSE]
               IN  [same EXCEPT !.receive_buffer = d.jb, !.audio_chan = d.chan,
                                !.result = IF d.blocked THEN "blocked" ELSE "Ok"]
          [] packet.packet_type = "Heartbeat" ->
               [same EXCEPT !.conn = update_last_heartbeat(conn[m])]
          [] packet.packet_type = "Handshake" ->
               LET response == create_handshake_packet(m)
                   sent == send_result(m, outcome)
               IN  [same EXCEPT
                      !.conn = update_last_heartbeat(conn[m]),
                      !.net = net_after_send(net0, m, response, source, sent),
                      !.tx = tx_after_send(m, response, source, sent),
                      !.result = IF sent = "failed" THEN "IoError" ELSE "Ok"]
          [] OTHER -> [same EXCEPT !.conn = Disconnected]

\* handle_received_packet(packet, source) of manager m, net0 being the receive
\* queues once the packet is taken: the manager's fields and the network after it,
\* and its result ("blocked": the channel send never returns).
handle_received_packet(m, packet, source, net0, outcome) ==
    LET same == [conn |-> conn[m], receive_buffer |-> receive_buffer[m],
                 audio_chan |-> audio_chan[m], net |-> net0, tx |-> tx, result |-> "Ok"]
    IN  CASE packet.packet_type = "Audio" ->
               LET pushed == push_packet(receive_buffer[m], packet)
                   d == IF pushed.ret THEN drain(pushed.jb, audio_chan[m])
                        ELSE [jb |-> pushed.jb, chan |-> audio_chan[m], blocked |-> FALSE]
               IN  [same EXCEPT !.receive_buffer = d.jb, !.audio_chan = d.chan,
                                !.result = IF d.blocked THEN "blocked" ELSE "Ok"]
          [] packet.packet_type = "Heartbeat" ->
               [same EXCEPT !.conn = update_last_heartbeat(conn[m])]
          [] packet.packet_type = "Handshake" ->
               LET response == create_handshake_packet(m)
                   sent == send_result(m, outcome)
               IN  [same EXCEPT
                      !.net = net_after_send(net0, m, response, source, sent),
                      !.tx = tx_after_send(m, response, source, sent),
                      !.result = IF sent = "failed" THEN "IoError" ELSE "Ok"]
          [] OTHER -> [same EXCEPT !.conn = Disconnected]

\* ------------------------------------------------------- calls and returns
Begin(m) == pc[m] = "idle" /\ calls[m] < MaxCalls

Started(m) == calls' = [calls EXCEPT ![m] = @ + 1]

Pending(m, op) == ret' = [ret EXCEPT ![m] = [op |-> op, result |-> "pending", frame |-> None]]

Return(m, op, result, frame) ==
    /\ ret' = [ret EXCEPT ![m] = [op |-> op, result |-> result, frame |-> frame]]
    /\ pc' = [pc EXCEPT ![m] = "idle"]

\* The components driven on their own, untouched by the managers.
NoJB == UNCHANGED <<jbvars, compvars>>

\* ---------------------------------------------------------- start_listening
\* start_listening(port) up to its first receive: bind, state := Disconnected.
StartListening(m, env) ==
    /\ Begin(m) /\ Started(m)
    /\ \E bind_ok \in env.bind :
         IF bound[m]
         THEN /\ Return(m, "start_listening", "InvalidState", None)
              /\ UNCHANGED <<conn, bound>>
         ELSE IF ~bind_ok
         THEN /\ Return(m, "start_listening", "BindError", None)
              /\ UNCHANGED <<conn, bound>>
         ELSE /\ bound' = [bound EXCEPT ![m] = TRUE]
              /\ conn' = [conn EXCEPT ![m] = Disconnected]
              /\ pc' = [pc EXCEPT ![m] = "listen_wait"]
              /\ Pending(m, "start_listening")
    /\ UNCHANGED <<sequence_counter, receive_buffer, audio_chan, deadline_passed,
                   net, tx, env_sent>>
    /\ NoJB

\* The loop that waits for a connection: one receive_packet that returns a
\* datagram. (A receive that times out loops without any change.)
ListenWaitRecv(m) ==
    /\ pc[m] = "listen_wait" /\ net[m] # <<>>
    /\ LET d == Head(net[m])
           e == deserialize_packet(d)
       IN  /\ net' = [net EXCEPT ![m] = Tail(@)]
           /\ IF e # "Ok"
              THEN Return(m, "start_listening", e, None) /\ UNCHANGED conn
              ELSE IF d.packet.packet_type = "Handshake"
              THEN /\ conn' = [conn EXCEPT ![m] = Connecting(d.src)]
                   /\ pc' = [pc EXCEPT ![m] = "listen_reply"]
                   /\ UNCHANGED ret
              ELSE UNCHANGED <<conn, pc, ret>>
    /\ UNCHANGED <<bound, sequence_counter, receive_buffer, audio_chan, deadline_passed,
                   calls, tx, env_sent>>
    /\ NoJB

\* handle_received_packet(handshake, source_addr) in the waiting loop: the reply.
ListenReply(m, env) ==
    /\ pc[m] = "listen_reply"
    /\ \E outcome \in env.send :
         LET h == handle_received_packet(m, create_handshake_packet(conn[m].peer),
                                         conn[m].peer, net, outcome)
         IN  /\ net' = h.net
             /\ tx' = h.tx
             /\ IF h.result # "Ok"
                THEN Return(m, "start_listening", h.result, None)
                ELSE pc' = [pc EXCEPT ![m] = "listen_accept"] /\ UNCHANGED ret
    /\ UNCHANGED <<conn, bound, sequence_counter, receive_buffer, audio_chan,
                   deadline_passed, calls, env_sent>>
    /\ NoJB

\* Mutant of ListenAccept: the listener records its own address as the peer.
ListenAccept_own_address(m) ==
    /\ pc[m] = "listen_accept"
    /\ conn' = [conn EXCEPT ![m] = Connected(m, session_id_of(m))]
    /\ pc' = [pc EXCEPT ![m] = "listen_conn"]
    /\ UNCHANGED <<bound, sequence_counter, receive_buffer, audio_chan, deadline_passed,
                   ret, calls, net, tx, env_sent>>
    /\ NoJB

\* state := Connected(peer = source_addr), start_heartbeat (a placeholder that
\* starts nothing), and on to the connected loop.
ListenAccept(m) ==
    /\ pc[m] = "listen_accept"
    /\ conn' = [conn EXCEPT ![m] = Connected(conn[m].peer, session_id_of(m))]
    /\ pc' = [pc EXCEPT ![m] = "listen_conn"]
    /\ UNCHANGED <<bound, sequence_counter, receive_buffer, audio_chan, deadline_passed,
                   ret, calls, net, tx, env_sent>>
    /\ NoJB

\* The connected loop: one receive_packet that returns a datagram.
ListenConnRecv(m, env) ==
    /\ pc[m] = "listen_conn" /\ net[m] # <<>>
    /\ \E outcome \in env.send :
         LET d == Head(net[m])
             e == deserialize_packet(d)
             net0 == [net EXCEPT ![m] = Tail(@)]
             h == handle_received_packet(m, d.packet, d.src, net0, outcome)
         IN  IF e # "Ok"
             THEN /\ Return(m, "start_listening", e, None)
                  /\ net' = net0
                  /\ UNCHANGED <<conn, receive_buffer, audio_chan, tx>>
             ELSE IF Some(d.src) # peer_addr(conn[m])
             THEN /\ net' = net0
                  /\ UNCHANGED <<conn, receive_buffer, audio_chan, tx, pc, ret>>
             ELSE /\ net' = h.net
                  /\ tx' = h.tx
                  /\ receive_buffer' = [receive_buffer EXCEPT ![m] = h.receive_buffer]
                  /\ audio_chan' = [audio_chan EXCEPT ![m] = h.audio_chan]
                  /\ conn' = [conn EXCEPT ![m] = h.conn]
                  /\ IF h.result = "IoError"
                     THEN Return(m, "start_listening", "IoError", None)
                     ELSE IF h.result = "blocked"
                     THEN pc' = [pc EXCEPT ![m] = "blocked"] /\ UNCHANGED ret
                     ELSE IF d.packet.packet_type = "Disconnect"
                     THEN pc' = [pc EXCEPT ![m] = "listen_wait"] /\ UNCHANGED ret
                     ELSE UNCHANGED <<pc, ret>>
    /\ UNCHANGED <<bound, sequence_counter, deadline_passed, calls, env_sent>>
    /\ NoJB

\* Mutant of ListenConnTimeout: the loop is left with the state still Connected.
ListenConnTimeout_stays_connected(m) ==
    /\ pc[m] = "listen_conn" /\ net[m] = <<>>
    /\ check_heartbeat_timeout(conn[m])
    /\ pc' = [pc EXCEPT ![m] = "listen_wait"]
    /\ UNCHANGED <<conn, bound, sequence_counter, receive_buffer, audio_chan,
                   deadline_passed, ret, calls, net, tx, env_sent>>
    /\ NoJB

\* Mutant of ListenConnTimeout: the end of the connection ends start_listening,
\* which returns Ok.
ListenConnTimeout_returns_ok(m) ==
    /\ pc[m] = "listen_conn" /\ net[m] = <<>>
    /\ check_heartbeat_timeout(conn[m])
    /\ conn' = [conn EXCEPT ![m] = Disconnected]
    /\ Return(m, "start_listening", "Ok", None)
    /\ UNCHANGED <<bound, sequence_counter, receive_buffer, audio_chan, deadline_passed,
                   calls, net, tx, env_sent>>
    /\ NoJB

\* The connected loop: receive_packet times out and check_heartbeat_timeout is
\* true. (When it is false the loop continues without any change.)
ListenConnTimeout(m) ==
    /\ pc[m] = "listen_conn" /\ net[m] = <<>>
    /\ check_heartbeat_timeout(conn[m])
    /\ conn' = [conn EXCEPT ![m] = Disconnected]
    /\ pc' = [pc EXCEPT ![m] = "listen_wait"]
    /\ UNCHANGED <<bound, sequence_counter, receive_buffer, audio_chan, deadline_passed,
                   ret, calls, net, tx, env_sent>>
    /\ NoJB

\* ---------------------------------------------------------- connect_to_peer
\* The part of connect_to_peer from bind to the first receive of the handshake
\* loop, given that the socket is not bound yet.
connect_after_bind(m, addr, op, outcome) ==
    LET handshake == create_handshake_packet(m)
    IN  /\ bound' = [bound EXCEPT ![m] = TRUE]
        /\ conn' = [conn EXCEPT ![m] = Connecting(addr)]
        /\ deadline_passed' = [deadline_passed EXCEPT ![m] = FALSE]
        /\ net' = net_after_send(net, m, handshake, addr, outcome)
        /\ tx' = tx_after_send(m, handshake, addr, outcome)
        /\ IF outcome = "failed"
           THEN Return(m, op, "IoError", None)
           ELSE pc' = [pc EXCEPT ![m] = "hs_recv"] /\ Pending(m, op)

\* connect_to_peer(peer_addr): bind, state := Connecting(attempt 1), send the
\* Handshake, up to the first receive of perform_handshake.
ConnectToPeer(m, addr, env) ==
    /\ Begin(m) /\ Started(m)
    /\ \E bind_ok \in env.bind, outcome \in env.send :
         IF bound[m]
         THEN /\ Return(m, "connect_to_peer", "InvalidState", None)
              /\ UNCHANGED <<conn, bound, deadline_passed, net, tx>>
         ELSE IF ~bind_ok
         THEN /\ Return(m, "connect_to_peer", "BindError", None)
              /\ UNCHANGED <<conn, bound, deadline_passed, net, tx>>
         ELSE connect_after_bind(m, addr, "connect_to_peer", outcome)
    /\ UNCHANGED <<sequence_counter, receive_buffer, audio_chan, env_sent>>
    /\ NoJB

\* perform_handshake: a receive_packet that returns a datagram, and the loop test
\* that follows when the loop goes on.
HandshakeRecv(m) ==
    /\ pc[m] = "hs_recv" /\ net[m] # <<>>
    /\ LET d == Head(net[m])
           e == deserialize_packet(d)
           op == ret[m].op
       IN  /\ net' = [net EXCEPT ![m] = Tail(@)]
           /\ IF e # "Ok"
              THEN Return(m, op, e, None) /\ UNCHANGED conn
              ELSE IF d.src = conn[m].peer /\ d.packet.packet_type = "Handshake"
              THEN /\ conn' = [conn EXCEPT ![m] = Connected(conn[m].peer, session_id_of(m))]
                   /\ Return(m, op, "Ok", None)
              ELSE IF deadline_passed[m]
              THEN Return(m, op, "ConnectionTimeout", None) /\ UNCHANGED conn
              ELSE UNCHANGED <<conn, pc, ret>>
    /\ UNCHANGED <<bound, sequence_counter, receive_buffer, audio_chan, deadline_passed,
                   calls, tx, env_sent>>
    /\ NoJB

\* perform_handshake: receive_packet times out after connection_timeout, the loop
\* sleeps, finds the time elapsed and ends with ConnectionTimeout.
HandshakeRecvTimeout(m) ==
    /\ pc[m] = "hs_recv" /\ net[m] = <<>>
    /\ Return(m, ret[m].op, "ConnectionTimeout", None)
    /\ deadline_passed' = [deadline_passed EXCEPT ![m] = TRUE]
    /\ UNCHANGED <<conn, bound, sequence_counter, receive_buffer, audio_chan,
                   calls, net, tx, env_sent>>
    /\ NoJB

\* Time: connection_timeout has elapsed since perform_handshake started, while
\* a receive_packet begun before that is still waiting.
ConnectDeadlinePasses(m) ==
    /\ pc[m] = "hs_recv" /\ ~deadline_passed[m]
    /\ deadline_passed' = [deadline_passed EXCEPT ![m] = TRUE]
    /\ UNCHANGED <<conn, bound, sequence_counter, receive_buffer, audio_chan, pc,
                   ret, calls, net, tx, env_sent>>
    /\ NoJB

\* Time: heartbeat_timeout has elapsed since last_heartbeat.
HeartbeatDeadlinePasses(m) ==
    /\ conn[m].tag = "Connected" /\ ~conn[m].heartbeat_overdue
    /\ conn' = [conn EXCEPT ![m].heartbeat_overdue = TRUE]
    /\ UNCHANGED <<bound, sequence_counter, receive_buffer, audio_chan, pc,
                   deadline_passed, ret, calls, net, tx, env_sent>>
    /\ NoJB


\* --------------------------------------------------------------- send_audio
\* send_audio(frame) as it would be if the packet kept the sequence number of the
\* caller's frame (0 here).
SendAudio_keeps_frame_sequence(m, env) ==
    /\ Begin(m) /\ Started(m)
    /\ sequence_counter[m] < MaxSeq
    /\ \E outcome \in env.send :
         IF ~is_connected(conn[m])
         THEN /\ Return(m, "send_audio", "InvalidState", None)
              /\ UNCHANGED <<sequence_counter, net, tx>>
         ELSE LET sequence == sequence_counter[m] + 1
                  packet == new_audio(0, 0, sender_id_of(m), session_id_of(m))
                  sent == send_result(m, outcome)
              IN  /\ sequence_counter' = [sequence_counter EXCEPT ![m] = sequence]
                  /\ net' = net_after_send(net, m, packet, conn[m].peer, sent)
                  /\ tx' = tx_after_send(m, packet, conn[m].peer, sent)
                  /\ Return(m, "send_audio", IF sent = "failed" THEN "IoError" ELSE "Ok",
                            Some(packet))
    /\ UNCHANGED <<conn, bound, receive_buffer, audio_chan, deadline_passed, env_sent>>
    /\ NoJB

\* send_audio(frame), a frame whose own sequence number is 0. The call's record
\* keeps the packet handed to the transport.
SendAudio(m, env) ==
    /\ Begin(m) /\ Started(m)
    /\ sequence_counter[m] < MaxSeq
    /\ \E outcome \in env.send :
         IF ~is_connected(conn[m])
         THEN /\ Return(m, "send_audio", "InvalidState", None)
              /\ UNCHANGED <<sequence_counter, net, tx>>
         ELSE LET sequence == sequence_counter[m] + 1
                  packet == new_audio(sequence, 0, sender_id_of(m), session_id_of(m))
                  sent == send_result(m, outcome)
              IN  /\ sequence_counter' = [sequence_counter EXCEPT ![m] = sequence]
                  /\ net' = net_after_send(net, m, packet, conn[m].peer, sent)
                  /\ tx' = tx_after_send(m, packet, conn[m].peer, sent)
                  /\ Return(m, "send_audio", IF sent = "failed" THEN "IoError" ELSE "Ok",
                            Some(packet))
    /\ UNCHANGED <<conn, bound, receive_buffer, audio_chan, deadline_passed, env_sent>>
    /\ NoJB

\* ------------------------------------------------------------ receive_audio
\* receive_audio() up to its first receive: the state test and the local pop.
ReceiveAudio(m) ==
    /\ Begin(m) /\ Started(m)
    /\ LET r == pop_packet(receive_buffer[m])
       IN  IF ~is_connected(conn[m])
           THEN /\ Return(m, "receive_audio", "InvalidState", None)
                /\ UNCHANGED receive_buffer
           ELSE IF r.ret # None
           THEN /\ receive_buffer' = [receive_buffer EXCEPT ![m] = r.jb]
                /\ Return(m, "receive_audio", "Ok", Some(r.ret[1].sequence_number))
           ELSE /\ pc' = [pc EXCEPT ![m] = "recv_wait"]
                /\ Pending(m, "receive_audio")
                /\ UNCHANGED receive_buffer
    /\ UNCHANGED <<conn, bound, sequence_counter, audio_chan, deadline_passed,
                   net, tx, env_sent>>
    /\ NoJB

\* The loop of receive_audio as it would be without the test of the source
\* address: every decoded packet is handled.
ReceiveAudioRecv_no_peer_filter(m, env) ==
    /\ pc[m] = "recv_wait" /\ net[m] # <<>>
    /\ \E outcome \in env.send :
         LET d == Head(net[m])
             e == deserialize_packet(d)
             net0 == [net EXCEPT ![m] = Tail(@)]
             h == handle_received_packet(m, d.packet, d.src, net0, outcome)
         IN  IF e # "Ok"
             THEN /\ Return(m, "receive_audio", e, None)
                  /\ net' = net0
                  /\ UNCHANGED <<conn, receive_buffer, audio_chan, tx>>
             ELSE /\ net' = h.net
                  /\ tx' = h.tx
                  /\ receive_buffer' = [receive_buffer EXCEPT ![m] = h.receive_buffer]
                  /\ audio_chan' = [audio_chan EXCEPT ![m] = h.audio_chan]
                  /\ conn' = [conn EXCEPT ![m] = h.conn]
                  /\ IF h.result = "IoError"
                     THEN Return(m, "receive_audio", "IoError", None)
                     ELSE IF h.result = "blocked"
                     THEN pc' = [pc EXCEPT ![m] = "blocked"] /\ UNCHANGED ret
                     ELSE IF d.packet.packet_type = "Audio"
                     THEN Return(m, "receive_audio", "Ok", Some(d.packet.sequence_number))
                     ELSE UNCHANGED <<pc, ret>>
    /\ UNCHANGED <<bound, sequence_counter, deadline_passed, calls, env_sent>>
    /\ NoJB

\* The loop of receive_audio: one receive_packet that returns a datagram.
ReceiveAudioRecv(m, env) ==
    /\ pc[m] = "recv_wait" /\ net[m] # <<>>
    /\ \E outcome \in env.send :
         LET d == Head(net[m])
             e == deserialize_packet(d)
             net0 == [net EXCEPT ![m] = Tail(@)]
             h == handle_received_packet(m, d.packet, d.src, net0, outcome)
         IN  IF e # "Ok"
             THEN /\ Return(m, "receive_audio", e, None)
                  /\ net' = net0
                  /\ UNCHANGED <<conn, receive_buffer, audio_chan, tx>>
             ELSE IF Some(d.src) # peer_addr(conn[m])
             THEN /\ net' = net0
                  /\ UNCHANGED <<conn, receive_buffer, audio_chan, tx, pc, ret>>
             ELSE /\ net' = h.net
                  /\ tx' = h.tx
                  /\ receive_buffer' = [receive_buffer EXCEPT ![m] = h.receive_buffer]
                  /\ audio_chan' = [audio_chan EXCEPT ![m] = h.audio_chan]
                  /\ conn' = [conn EXCEPT ![m] = h.conn]
                  /\ IF h.result = "IoError"
                     THEN Return(m, "receive_audio", "IoError", None)
                     ELSE IF h.result = "blocked"
                     THEN pc' = [pc EXCEPT ![m] = "blocked"] /\ UNCHANGED ret
                     ELSE IF d.packet.packet_type = "Audio"
                     THEN Return(m, "receive_audio", "Ok", Some(d.packet.sequence_number))
                     ELSE UNCHANGED <<pc, ret>>
    /\ UNCHANGED <<bound, sequence_counter, deadline_passed, calls, env_sent>>
    /\ NoJB

\* The loop of receive_audio: receive_packet times out and check_heartbeat_timeout
\* is true. (When it is false the loop continues without any change.)
ReceiveAudioTimeout(m) ==
    /\ pc[m] = "recv_wait" /\ net[m] = <<>>
    /\ check_heartbeat_timeout(conn[m])
    /\ Return(m, "receive_audio", "PeerDisconnected", None)
    /\ UNCHANGED <<conn, bound, sequence_counter, receive_buffer, audio_chan,
                   deadline_passed, calls, net, tx, env_sent>>
    /\ NoJB

\* --------------------------------------------------------------- disconnect
\* disconnect() as it would be if a failed send of the Disconnect packet were
\* propagated: the call returns the error and the state is kept.
Disconnect_propagates_send_error(m, env) ==
    /\ Begin(m) /\ Started(m)
    /\ \E outcome \in env.send :
         LET sent == send_result(m, outcome)
             packet == create_disconnect_packet(m)
         IN  IF peer_addr(conn[m]) # None
             THEN /\ net' = net_after_send(net, m, packet, conn[m].peer, sent)
                  /\ tx' = tx_after_send(m, packet, conn[m].peer, sent)
                  /\ IF sent = "failed"
                     THEN /\ UNCHANGED conn
                          /\ Return(m, "disconnect", "IoError", None)
                     ELSE /\ conn' = [conn EXCEPT ![m] = Disconnected]
                          /\ Return(m, "disconnect", "Ok", None)
             ELSE /\ UNCHANGED <<net, tx, conn>>
                  /\ Return(m, "disconnect", "Ok", None)
    /\ UNCHANGED <<bound, sequence_counter, receive_buffer, audio_chan,
                   deadline_passed, env_sent>>
    /\ NoJB

\* disconnect() as it would be if it tested is_connected() instead of
\* peer_addr(): a manager that is still Connecting sends nothing.
Disconnect_only_when_connected(m, env) ==
    /\ Begin(m) /\ Started(m)
    /\ \E outcome \in env.send :
         LET sent == send_result(m, outcome)
             packet == create_disconnect_packet(m)
         IN  IF is_connected(conn[m])
             THEN /\ net' = net_after_send(net, m, packet, conn[m].peer, sent)
                  /\ tx' = tx_after_send(m, packet, conn[m].peer, sent)
             ELSE UNCHANGED <<net, tx>>
    /\ conn' = [conn EXCEPT ![m] = Disconnected]
    /\ Return(m, "disconnect", "Ok", None)
    /\ UNCHANGED <<bound, sequence_counter, receive_buffer, audio_chan,
                   deadline_passed, env_sent>>
    /\ NoJB

\* disconnect()
Disconnect(m, env) ==
    /\ Begin(m) /\ Started(m)
    /\ \E outcome \in env.send :
         LET sent == send_result(m, outcome)
             packet == create_disconnect_packet(m)
         IN  IF peer_addr(conn[m]) # None
             THEN /\ net' = net_after_send(net, m, packet, conn[m].peer, sent)
                  /\ tx' = tx_after_send(m, packet, conn[m].peer, sent)
             ELSE UNCHANGED <<net, tx>>
    /\ conn' = [conn EXCEPT ![m] = Disconnected]
    /\ Return(m, "disconnect", "Ok", None)
    /\ UNCHANGED <<bound, sequence_counter, receive_buffer, audio_chan,
                   deadline_passed, env_sent>>
    /\ NoJB

\* ---------------------------------------------------------------- reconnect
\* reconnect(): with a peer address, disconnect(), sleep, then connect_to_peer up
\* to its first receive; without one, InvalidState.
Reconnect(m, env) ==
    /\ Begin(m) /\ Started(m)
    /\ \E bind_ok \in env.bind, outcome1 \in env.send, outcome2 \in env.send :
         LET sent == send_result(m, outcome1)
             packet == create_disconnect_packet(m)
             addr == conn[m].peer
             net1 == net_after_send(net, m, packet, addr, sent)
             tx1 == tx_after_send(m, packet, addr, sent)
         IN  IF peer_addr(conn[m]) = None
             THEN /\ Return(m, "reconnect", "InvalidState", None)
                  /\ UNCHANGED <<conn, bound, deadline_passed, net, tx>>
             ELSE IF bound[m]
             THEN /\ net' = net1
                  /\ tx' = tx1
                  /\ conn' = [conn EXCEPT ![m] = Disconnected]
                  /\ Return(m, "reconnect", "InvalidState", None)
                  /\ UNCHANGED <<bound, deadline_passed>>
             ELSE IF ~bind_ok
             THEN /\ conn' = [conn EXCEPT ![m] = Disconnected]
                  /\ Return(m, "reconnect", "BindError", None)
                  /\ UNCHANGED <<bound, deadline_passed, net, tx>>
             ELSE connect_after_bind(m, addr, "reconnect", outcome2)
    /\ UNCHANGED <<sequence_counter, receive_buffer, audio_chan, env_sent>>
    /\ NoJB

\* -------------------------------------------------------------- other hosts
\* The datagrams another host can address to a manager's socket: any packet from
\* any source address, or bytes that fail the checksum or do not decode.
EnvPackets(src) ==
    {[packet_type |-> t, sender_id |-> sender_id_of(src), session_id |-> session_id_of(src),
      sequence_number |-> 0, data |-> 0] : t \in {"Heartbeat", "Handshake", "Disconnect"}}
    \cup {new_audio(q, 0, sender_id_of(src), session_id_of(src)) : q \in 1..MaxNetSeq}

\* A datagram from elsewhere arrives in the receive queue of m's socket: a
\* well-formed packet bearing one of the source addresses, or damaged bytes of one
\* of the kinds.
EnvSend(m, sources, damaged) ==
    /\ env_sent < MaxEnv
    /\ bound[m] /\ Len(net[m]) < NetCap
    /\ \E src \in sources :
         \E d \in {Datagram(src, "ok", p) : p \in EnvPackets(src)}
                  \cup {Datagram("X", k, create_handshake_packet("X")) : k \in damaged} :
            net' = [net EXCEPT ![m] = Append(@, d)]
    /\ env_sent' = env_sent + 1
    /\ UNCHANGED <<conn, bound, sequence_counter, receive_buffer, audio_chan, pc,
                   deadline_passed, ret, calls, tx>>
    /\ NoJB

\* ------------------------------------------------------------ specification
\* The stand-alone jitter buffer, unused by the managers, stays as constructed.
Init ==
    /\ buffer = JitterBuffer_new(ReceiveBufferSize)
    /\ jb_last = NoCall @@ [pre |-> buffer]
    /\ jb_yielded = <<>>
    /\ jb_pushes = 0
    /\ jb_accepted = 0
    /\ jb_full_accepted = 0
    /\ jb_stale = 0
    /\ InitManagers
    /\ InitComponents

\* One manager, at address "A", under every behaviour of the network and of the
\* hosts at the other addresses.
Next ==
    \/ StartListening("A", Faulty)
    \/ ListenWaitRecv("A")
    \/ ListenReply("A", Faulty)
    \/ ListenAccept("A")
    \/ ListenConnRecv("A", Faulty)
    \/ ListenConnTimeout("A")
    \/ \E addr \in Addr \ {"A"} : ConnectToPeer("A", addr, Faulty)
    \/ HandshakeRecv("A")
    \/ HandshakeRecvTimeout("A")
    \/ ConnectDeadlinePasses("A")
    \/ HeartbeatDeadlinePasses("A")
    \/ SendAudio("A", Faulty)
    \/ ReceiveAudio("A")
    \/ ReceiveAudioRecv("A", Faulty)
    \/ ReceiveAudioTimeout("A")
    \/ Disconnect("A", Faulty)
    \/ Reconnect("A", Faulty)
    \/ EnvSend("A", Addr \ {"A"}, {"corrupt", "malformed"})

Spec == Init /\ [][Next]_vars

\* ------------------------------------------------- two managers, one session
\* The steps of start_listening once it is running on B.
ListenerSteps ==
    \/ ListenWaitRecv("B")
    \/ ListenReply("B", Reliable)
    \/ ListenAccept("B")
    \/ ListenConnRecv("B", Reliable)

\* A calls connect_to_peer(B) once, while B's start_listening waits for a connection
\* with nothing queued before A's Handshake.
PairConnect ==
    /\ pc["B"] = "listen_wait" /\ net["B"] = <<>> /\ ~bound["A"]
    /\ ConnectToPeer("A", "B", Reliable)

\* Manager B listens, manager A connects to it and sends audio, on a
\* network that delivers what is sent and within every timeout: no send or bind
\* fails, no deadline passes, and the only other traffic is well-formed packets
\* that host X sends to the listener under its own address.
NextPair ==
    \/ StartListening("B", Reliable)
    \/ ListenerSteps
    \/ PairConnect
    \/ HandshakeRecv("A")
    \/ SendAudio("A", Reliable)
    \/ EnvSend("B", {"X"}, {})

\* Each manager runs as a task of its own: a step of start_listening or of
\* perform_handshake that can be taken is taken. The calls themselves are the
\* application's choice and carry no fairness.
SpecPair ==
    /\ Init /\ [][NextPair]_vars
    /\ WF_vars(ListenerSteps)
    /\ WF_vars(HandshakeRecv("A"))

\* ------------------------------------------------------ a connecting manager
\* Manager A never listens: it connects with connect_to_peer and uses the session,
\* under every behaviour of the network and of the other hosts.
NextClient ==
    \/ \E addr \in Addr \ {"A"} : ConnectToPeer("A", addr, Faulty)
    \/ HandshakeRecv("A")
    \/ HandshakeRecvTimeout("A")
    \/ ConnectDeadlinePasses("A")
    \/ HeartbeatDeadlinePasses("A")
    \/ SendAudio("A", Faulty)
    \/ ReceiveAudio("A")
    \/ ReceiveAudioRecv("A", Faulty)
    \/ ReceiveAudioTimeout("A")
    \/ Disconnect("A", Faulty)
    \/ Reconnect("A", Faulty)
    \/ EnvSend("A", Addr \ {"A"}, {"corrupt", "malformed"})

SpecClient == Init /\ [][NextClient]_vars

\* The connecting manager on a socket that always binds and never refuses a send.
NextClientReliable ==
    \/ \E addr \in Addr \ {"A"} : ConnectToPeer("A", addr, Reliable)
    \/ HandshakeRecv("A")
    \/ HandshakeRecvTimeout("A")
    \/ ConnectDeadlinePasses("A")
    \/ HeartbeatDeadlinePasses("A")
    \/ SendAudio("A", Reliable)
    \/ ReceiveAudio("A")
    \/ ReceiveAudioRecv("A", Reliable)
    \/ ReceiveAudioTimeout("A")
    \/ Disconnect("A", Reliable)
    \/ Reconnect("A", Reliable)
    \/ EnvSend("A", Addr \ {"A"}, {"corrupt", "malformed"})

SpecClientReliable == Init /\ [][NextClientReliable]_vars

\* ================================================================== claims

\* ---- helpers of the claims: a run of calls on a fresh buffer
RECURSIVE PushAll(_, _)
PushAll(jb, sequences) ==
    IF sequences = <<>> THEN jb
    ELSE PushAll(push_packet(jb, new_audio(Head(sequences), 0, 123, 456)).jb, Tail(sequences))

\* The sequence numbers returned by n successive pops (0 stands for none), and
\* the buffer they leave.
RECURSIVE PopTimes(_, _)
PopTimes(jb, n) ==
    IF n = 0 THEN [jb |-> jb, outs |-> <<>>]
    ELSE LET r == pop_packet(jb)
             rest == PopTimes(r.jb, n - 1)
         IN  [jb |-> rest.jb,
              outs |-> <<IF r.ret = None THEN 0 ELSE r.ret[1].sequence_number>> \o rest.outs]

Buffered == Cardinality(DOMAIN buffer.packets)

Stale(jb, packet) == packet.sequence_number < jb.expected_sequence

Duplicate(jb, packet) == packet.sequence_number \in DOMAIN jb.packets

\* C2: whatever the interleaving of pushes and pops, the sequence numbers of the
\* packets returned by successive successful pops are strictly increasing.
C2_PopsStrictlyIncreasing ==
    \A i, j \in 1..Len(jb_yielded) : i < j => jb_yielded[i] < jb_yielded[j]

\* C2 witness: three packets were popped around a gap, and a push followed a pop.
C2_Witness ==
    /\ Len(jb_yielded) >= 3
    /\ jb_yielded[2] > jb_yielded[1] + 1
    /\ jb_last.op = "pop" /\ jb_last.ok
    /\ buffer.packets # EmptyMap

\* C3: a pop on a non-empty buffer returns the stored packet with the smallest
\* sequence s, adds s - expected_before to lost_packets and leaves expected = s + 1;
\* pushes [3,1,2,5,4] pop as 1,2,3,4,5,none with no loss, pushes [1,2,4,5] pop as
\* 1,2,4,5 with one loss.
C3_PopSmallestCountsGap ==
    /\ (jb_last.op = "pop" /\ jb_last.pre.packets # EmptyMap) =>
          LET pre == jb_last.pre
              s == SetMin(DOMAIN pre.packets)
          IN  /\ jb_last.out = Some(pre.packets[s])
              /\ buffer.lost_packets = pre.lost_packets + (s - pre.expected_sequence)
              /\ buffer.expected_sequence = s + 1
              /\ buffer.packets = MapRemove(pre.packets, s)
    /\ LET r == PopTimes(PushAll(JitterBuffer_new(10), <<3, 1, 2, 5, 4>>), 6)
       IN  r.outs = <<1, 2, 3, 4, 5, 0>> /\ r.jb.lost_packets = 0
    /\ LET r == PopTimes(PushAll(JitterBuffer_new(10), <<1, 2, 4, 5>>), 4)
       IN  r.outs = <<1, 2, 4, 5>> /\ r.jb.lost_packets = 1

\* C3 witness: a pop skipped at least two missing slots before returning a packet.
C3_Witness ==
    /\ jb_last.op = "pop" /\ jb_last.ok
    /\ buffer.lost_packets >= jb_last.pre.lost_packets + 2
    /\ jb_last.pre.expected_sequence > 1

\* C4: a push of a stale packet (sequence below expected) or of a duplicate (its
\* sequence is already stored) returns false and leaves the stored packets, the
\* expected pointer and lost_packets as they were.
C4_RejectedPushChangesNothing ==
    (jb_last.op = "push"
       /\ (Stale(jb_last.pre, jb_last.packet[1]) \/ Duplicate(jb_last.pre, jb_last.packet[1])))
    => (~jb_last.ok /\ buffer = jb_last.pre)

\* C4 witness: a duplicate with another payload was pushed and refused.
C4_Witness ==
    /\ jb_last.op = "push" /\ ~jb_last.ok
    /\ Duplicate(jb_last.pre, jb_last.packet[1])
    /\ jb_last.pre.packets[jb_last.packet[1].sequence_number].data # jb_last.packet[1].data
    /\ jb_stale >= 1

\* C5: a push of a fresh packet into a buffer that holds max_size packets removes
\* the stored packet with the smallest sequence, inserts the new one and returns
\* true; the number of stored packets never exceeds max_size.
C5_FullPushEvictsSmallest ==
    /\ Buffered <= buffer.max_size
    /\ (jb_last.op = "push"
          /\ ~Stale(jb_last.pre, jb_last.packet[1])
          /\ ~Duplicate(jb_last.pre, jb_last.packet[1])
          /\ Cardinality(DOMAIN jb_last.pre.packets) >= jb_last.pre.max_size)
       => /\ jb_last.ok
          /\ buffer.packets =
                MapInsert(MapRemove(jb_last.pre.packets, SetMin(DOMAIN jb_last.pre.packets)),
                          jb_last.packet[1].sequence_number, jb_last.packet[1])

\* C5 witness: a full buffer of several packets accepted a packet below all it stored.
C5_Witness ==
    /\ jb_last.op = "push" /\ jb_last.ok
    /\ Cardinality(DOMAIN jb_last.pre.packets) = jb_last.pre.max_size
    /\ jb_last.pre.max_size >= 2
    /\ jb_last.packet[1].sequence_number < SetMin(DOMAIN jb_last.pre.packets)

\* C6 as stated: when no push was stale, yielded + lost_packets + buffered equals
\* the number of pushes that returned true.
C6_Original ==
    jb_stale = 0 =>
        Len(jb_yielded) + buffer.lost_packets + Buffered = jb_accepted

\* C6 amended: lost_packets counts the sequence slots that pop skipped, not accepted
\* packets. Yielded + buffered + (accepted pushes made on a full buffer, each of which
\* evicted one packet) equals the pushes that returned true, and
\* yielded + lost_packets equals expected - 1.
C6_Accounting ==
    /\ Len(jb_yielded) + Buffered + jb_full_accepted = jb_accepted
    /\ Len(jb_yielded) + buffer.lost_packets = buffer.expected_sequence - 1

\* C6 witness: packets were yielded, a slot was counted lost and a full buffer evicted.
C6_Witness ==
    /\ Len(jb_yielded) >= 1
    /\ buffer.lost_packets >= 1
    /\ jb_full_accepted >= 1
    /\ Buffered >= 1

\* ---- helpers of the session claims
\* The step is manager m's call of operation op.
Calls(m, op) == calls'[m] = calls[m] + 1 /\ ret'[m].op = op

\* The step is a receive_packet of manager m that returns the well-formed datagram
\* at the head of its queue.
Receives(m) ==
    /\ net[m] # <<>> /\ net'[m] = Tail(net[m])
    /\ deserialize_packet(Head(net[m])) = "Ok"

\* The step sends exactly one packet of manager m, a Handshake to address S.
OneHandshakeTo(m, S) ==
    tx'[m] = [count |-> tx[m].count + 1, packet_type |-> "Handshake", to |-> S]

\* Manager m is Connected with the manager at address other as its peer.
PeerOf(m, other) == conn[m].tag = "Connected" /\ conn[m].peer = other

\* C1: in every state other than Connected (Disconnected, Connecting, Error) a call
\* of send_audio or receive_audio fails with InvalidState, and the failed call sends
\* no packet, leaves the send sequence counter, the jitter buffer (and the audio
\* channel and the receive queue) and the connection state as they were.
C1_NotConnectedCallsFail ==
    /\ [](\A state \in {Disconnected, Error} \cup {Connecting(a) : a \in Addr} :
             ~is_connected(state))
    /\ [][\A m \in Mgr : \A op \in {"send_audio", "receive_audio"} :
            (Calls(m, op) /\ conn[m].tag # "Connected") =>
                /\ ret'[m] = [op |-> op, result |-> "InvalidState", frame |-> None]
                /\ pc'[m] = "idle"
                /\ tx' = tx /\ net' = net
                /\ sequence_counter' = sequence_counter
                /\ receive_buffer' = receive_buffer /\ audio_chan' = audio_chan
                /\ conn' = conn]_vars

\* C1 witness: send_audio has failed with InvalidState on a manager left in
\* Connecting by a connect_to_peer that timed out, its one sent packet the Handshake.
C1_Witness ==
    /\ ret["A"] = [op |-> "send_audio", result |-> "InvalidState", frame |-> None]
    /\ conn["A"].tag = "Connecting"
    /\ tx["A"].count = 1 /\ tx["A"].packet_type = "Handshake"

\* C7: with B running start_listening and A calling connect_to_peer(B) over a
\* network that delivers both Handshake datagrams, A's call returns Ok (and nothing
\* else), and from then on both managers are Connected, A with peer B and B with
\* peer A.
C7_HandshakeConnectsBoth ==
    /\ [](ret["A"].op = "connect_to_peer" => ret["A"].result \in {"pending", "Ok"})
    /\ (pc["A"] = "hs_recv") ~>
           (ret["A"] = [op |-> "connect_to_peer", result |-> "Ok", frame |-> None])
    /\ (pc["A"] = "hs_recv") ~> [](PeerOf("A", "B") /\ PeerOf("B", "A"))

\* C7 witness: A's connect_to_peer(B) has returned Ok and both are Connected to
\* each other.
C7_Witness ==
    /\ ret["A"] = [op |-> "connect_to_peer", result |-> "Ok", frame |-> None]
    /\ PeerOf("A", "B") /\ PeerOf("B", "A")

\* C8: connect_to_peer(addr) enters Connecting with attempt 1 and sends a Handshake
\* to addr; it enters Connected(peer = addr) only on receiving a Handshake whose
\* source is addr, packets from other sources or of other types never complete the
\* handshake; and if no Handshake from addr arrives before connection_timeout has
\* elapsed the call fails with ConnectionTimeout and the state is never Connected:
\* the handshake is completed only before the deadline, and a call that ends
\* without a connection ends with ConnectionTimeout.
C8_HandshakeWithinTimeout ==
    [][\A m \in Mgr :
        /\ (Calls(m, "connect_to_peer") /\ pc'[m] = "hs_recv") =>
              \E addr \in Addr :
                 /\ conn'[m] = Connecting(addr) /\ conn'[m].attempt_count = 1
                 /\ OneHandshakeTo(m, addr)
        /\ (pc[m] = "hs_recv" /\ ret[m].op = "connect_to_peer") =>
              /\ conn'[m].tag = "Connected" =>
                    /\ Receives(m)
                    /\ Head(net[m]).src = conn[m].peer
                    /\ Head(net[m]).packet.packet_type = "Handshake"
                    /\ conn'[m].peer = conn[m].peer
                    /\ ret'[m].result = "Ok"
                    /\ ~deadline_passed[m]
              /\ (pc'[m] = "idle" /\ conn'[m].tag # "Connected") =>
                    ret'[m].result = "ConnectionTimeout"]_vars

C11_HeartbeatsWhileConnected ==
    /\ <>[]PeerOf("A", "B") => []<><<tx'["A"].packet_type = "Heartbeat">>_tx
    /\ [][\A m \in Mgr :
            (tx'[m] # tx[m] /\ tx'[m].packet_type = "Heartbeat") =>
                conn[m].tag = "Connected" /\ tx'[m].to = conn[m].peer]_vars

\* C12: when receive_audio, waiting in Connected, finds on a receive timeout that
\* last_heartbeat is older than heartbeat_timeout, it sets the connection state to
\* Disconnected and returns the error PeerDisconnected.
C12_ReceiveAudioHeartbeatTimeout ==
    [][\A m \in Mgr :
        ( /\ pc[m] = "recv_wait" /\ net[m] = <<>>
          /\ check_heartbeat_timeout(conn[m]) /\ pc'[m] # pc[m] ) =>
            /\ ret'[m] = [op |-> "receive_audio", result |-> "PeerDisconnected",
                          frame |-> None]
            /\ pc'[m] = "idle"
            /\ conn'[m] = Disconnected]_vars

\* The step is a receive_packet of manager m, Connected, that returns a well-formed
\* packet of that type from its current peer.
ReceivesFromPeer(m, type) ==
    /\ Receives(m) /\ conn[m].tag = "Connected"
    /\ Head(net[m]).src = conn[m].peer
    /\ Head(net[m]).packet.packet_type = type

\* C13: when receive_audio receives a Disconnect packet from the current peer, the
\* state becomes Disconnected and that call of receive_audio ends with the error
\* PeerDisconnected.
C13_ReceiveAudioPeerDisconnect ==
    [][\A m \in Mgr :
        (pc[m] = "recv_wait" /\ ReceivesFromPeer(m, "Disconnect")) =>
            /\ conn'[m] = Disconnected
            /\ pc'[m] = "idle"
            /\ ret'[m] = [op |-> "receive_audio", result |-> "PeerDisconnected",
                          frame |-> None]]_vars

\* C14: after a manager that connected with connect_to_peer has had receive_audio
\* fail with PeerDisconnected through the heartbeat timeout, a call of reconnect()
\* dials the same peer again (state Connecting to it, a Handshake sent to it, unless
\* the socket cannot be bound or refuses the send), and when the peer's Handshake
\* arrives before connection_timeout has elapsed the call returns Ok with the state
\* Connected to that peer.
C14_ReconnectAfterHeartbeatTimeout ==
    [][\A m \in Mgr :
        /\ ( /\ Calls(m, "reconnect")
             /\ ret[m] = [op |-> "receive_audio", result |-> "PeerDisconnected",
                          frame |-> None] ) =>
              \/ /\ pc'[m] = "hs_recv"
                 /\ conn'[m] = Connecting(conn[m].peer)
                 /\ tx'[m].packet_type = "Handshake" /\ tx'[m].to = conn[m].peer
              \/ ret'[m].result \in {"IoError", "BindError"}
        /\ ( /\ pc[m] = "hs_recv" /\ ret[m].op = "reconnect" /\ ~deadline_passed[m]
             /\ Receives(m) /\ Head(net[m]).src = conn[m].peer
             /\ Head(net[m]).packet.packet_type = "Handshake" ) =>
              /\ ret'[m] = [op |-> "reconnect", result |-> "Ok", frame |-> None]
              /\ conn'[m] = Connected(conn[m].peer, session_id_of(m))]_vars

\* The manager has had a peer address: it has one now, or its last call was a
\* disconnect() and the last packet it sent is the Disconnect to that peer.
HadPeer(m) ==
    \/ conn[m].peer # NoAddr
    \/ /\ ret[m] = [op |-> "disconnect", result |-> "Ok", frame |-> None]
       /\ tx[m].packet_type = "Disconnect"

PreviousPeer(m) == IF conn[m].peer # NoAddr THEN conn[m].peer ELSE tx[m].to

\* C15: reconnect() as a manager's first call is refused (InvalidState, nothing
\* sent, state unchanged); a reconnect() of a manager that has had a peer address,
\* also after disconnect(), goes on to connect_to_peer with that address (state
\* Connecting to it and a Handshake sent to it, unless the socket cannot be bound
\* or refuses the send).
C15_ReconnectRefusedOnlyWithoutPeer ==
    [][\A m \in Mgr : Calls(m, "reconnect") =>
        /\ calls[m] = 0 =>
              /\ ret'[m].result = "InvalidState"
              /\ conn'[m] = conn[m] /\ tx' = tx /\ net' = net
        /\ HadPeer(m) =>
              \/ /\ pc'[m] = "hs_recv"
                 /\ conn'[m] = Connecting(PreviousPeer(m))
                 /\ tx'[m].packet_type = "Handshake" /\ tx'[m].to = PreviousPeer(m)
              \/ /\ ret'[m].result \in {"IoError", "BindError"}
                 /\ ret'[m].result = "IoError" => conn'[m] = Connecting(PreviousPeer(m))]_vars

\* C16: disconnect() called in any connection state returns Ok and leaves the state
\* Disconnected, whatever becomes of the Disconnect packet; a disconnect() called
\* right after a disconnect() sends no packet and changes no state.
C16_DisconnectIdempotent ==
    [][\A m \in Mgr : Calls(m, "disconnect") =>
        /\ ret'[m] = [op |-> "disconnect", result |-> "Ok", frame |-> None]
        /\ pc'[m] = "idle"
        /\ conn'[m] = Disconnected
        /\ ret[m].op = "disconnect" =>
              /\ conn'[m] = conn[m]
              /\ tx' = tx /\ net' = net
              /\ UNCHANGED <<bound, sequence_counter, receive_buffer, audio_chan>>]_vars

\* disconnect() has returned Ok and left the state Disconnected although its
\* Disconnect packet could not be sent: the Handshake that opened the connection
\* is still the only packet the manager has sent.
C16_Witness ==
    /\ pc["A"] = "idle"
    /\ ret["A"] = [op |-> "disconnect", result |-> "Ok", frame |-> None]
    /\ conn["A"] = Disconnected
    /\ tx["A"].count = 1 /\ tx["A"].packet_type = "Handshake"

\* The packet m's call has sent is a Disconnect to the peer of m's state.
SendsDisconnect(m) ==
    /\ tx'[m] = [count |-> tx[m].count + 1, packet_type |-> "Disconnect",
                 to |-> conn[m].peer]
    /\ net' = net_after_send(net, m, create_disconnect_packet(m), conn[m].peer, "delivered")

C18_ForeignSessionDiscarded ==
    [][\A m \in Mgr :
        ( /\ Receives(m) /\ conn[m].tag = "Connected"
          /\ Head(net[m]).packet.session_id # conn[m].session_id ) =>
            /\ receive_buffer'[m] = receive_buffer[m]
            /\ audio_chan'[m] = audio_chan[m]
            /\ ret'[m].frame = None
            /\ conn'[m] = conn[m]]_vars

\* C19: while the state is Connected to peer P, a packet of any type received by
\* receive_audio or by the connected loop of start_listening from an address other
\* than P is only taken off the socket: the connection state (peer address and
\* last_heartbeat included), the jitter buffer and the audio channel are unchanged,
\* nothing is sent, and the operation goes on waiting without returning anything.
C19_NonPeerPacketIgnored ==
    [][\A m \in Mgr :
        ( /\ pc[m] \in {"recv_wait", "listen_conn"}
          /\ Receives(m) /\ conn[m].tag = "Connected"
          /\ Head(net[m]).src # conn[m].peer ) =>
            /\ conn'[m] = conn[m]
            /\ receive_buffer'[m] = receive_buffer[m]
            /\ audio_chan'[m] = audio_chan[m]
            /\ tx' = tx
            /\ net' = [net EXCEPT ![m] = Tail(@)]
            /\ pc'[m] = pc[m] /\ ret'[m] = ret[m]]_vars

\* receive_audio is waiting on a session Connected to B whose heartbeat is overdue,
\* and the next datagram on the socket is a well-formed Audio packet from X.
C19_Witness ==
    /\ pc["A"] = "recv_wait"
    /\ conn["A"].tag = "Connected" /\ conn["A"].peer = "B"
    /\ conn["A"].heartbeat_overdue
    /\ net["A"] # <<>>
    /\ Head(net["A"]).src = "X" /\ deserialize_packet(Head(net["A"])) = "Ok"
    /\ Head(net["A"]).packet.packet_type = "Audio"

\* C20: a recoverable transport error raised while receive_audio or start_listening
\* is receiving does not end the operation. A datagram that fails the checksum
\* (CorruptedPacket) is dropped, the connection state is unchanged and the operation
\* is still in the same loop with nothing returned; and while the socket has nothing
\* to deliver and no heartbeat timeout is due (Timeout), the operation stays in its
\* loop in the same connection state.
C20_RecoverableErrorsContinue ==
    [][\A m \in Mgr : pc[m] \in {"listen_wait", "listen_conn", "recv_wait"} =>
        /\ ( /\ net[m] # <<>> /\ net'[m] = Tail(net[m])
             /\ deserialize_packet(Head(net[m])) = "CorruptedPacket" ) =>
               /\ pc'[m] = pc[m] /\ ret'[m] = ret[m]
               /\ conn'[m] = conn[m]
               /\ receive_buffer'[m] = receive_buffer[m] /\ tx' = tx
        /\ (net[m] = <<>> /\ ~check_heartbeat_timeout(conn[m])) =>
               /\ pc'[m] = pc[m] /\ ret'[m] = ret[m]
               /\ conn'[m].tag = conn[m].tag /\ conn'[m].peer = conn[m].peer]_vars

\* =================================================== components on their own
\* Everything but the component `own` as constructed and never used.
InitOthers(own) ==
    /\ buffer = JitterBuffer_new(ReceiveBufferSize)
    /\ jb_last = NoCall @@ [pre |-> buffer]
    /\ jb_yielded = <<>>
    /\ jb_pushes = 0
    /\ jb_accepted = 0
    /\ jb_full_accepted = 0
    /\ jb_stale = 0
    /\ InitManagers
    /\ own # "ck" => ck = [at |-> "none"]
    /\ own # "udp" => udp = UdpTransport_new
    /\ own # "sim" => sim = SimulatedTransport_new
    /\ own # "playback" => playback = CpalPlayback_new
    /\ own # "capture" =>
         capture = CpalCapture_new([sample_rate |-> 48000, frame_duration_ms |-> 20, channels |-> 1])
    /\ own # "pipeline" => pipeline = AudioPipelineImpl_new

\* ------------------------------------------------------------ the checksum
\* Largest sender_id and session_id of a packet.
MaxId == 1
\* Largest value of a payload byte.
MaxByte == 1
\* Largest number of payload bytes.
MaxDataLen == 2

\* Vec<u8> payloads
Payloads == UNION {[1..n -> 0..MaxByte] : n \in 0..MaxDataLen}

\* The contents a packet can have: sequence numbers below and at the 32-bit limit.
Contents ==
    [protocol_version : {1, 2}, packet_type : {"Audio", "Heartbeat"},
     sender_id : 0..MaxId, session_id : 0..MaxId,
     sequence_number : {0, U32}, original_sample_count : 0..1, data : Payloads]

\* A packet is built by NetworkPacket::new_audio or new_heartbeat.
InitChecksum ==
    /\ \E c \in Contents :
         /\ c.protocol_version = 1
         /\ ck = [at |-> "built",
                  p |-> NetworkPacket_new(c.packet_type, c.sender_id, c.session_id,
                                          c.sequence_number, c.original_sample_count,
                                          c.data, 0),
                  q |-> None, verified |-> FALSE]
    /\ InitOthers("ck")

\* The packet arrives with any content and the checksum it was built with.
Arrive ==
    /\ ck.at = "built"
    /\ \E c \in Contents :
         ck' = [ck EXCEPT !.at = "arrived",
                          !.q = Some(NetworkPacket(c, 0, ck.p.checksum))]
    /\ UNCHANGED <<jbvars, mgrvars, udp, sim, playback, capture, pipeline>>

\* verify_checksum on the packet that arrived
Verify ==
    /\ ck.at = "arrived"
    /\ ck' = [ck EXCEPT !.at = "verified", !.verified = verify_checksum(ck.q[1])]
    /\ UNCHANGED <<jbvars, mgrvars, udp, sim, playback, capture, pipeline>>

NextChecksum == Arrive \/ Verify

SpecChecksum == InitChecksum /\ [][NextChecksum]_vars

\* C29: for a packet whose checksum was computed by calculate_checksum,
\* verify_checksum on the packet as received is true exactly when its checksummed
\* content (version, packet type, sender_id, session_id, sequence, original sample
\* count, payload) is the content it was built with.
C29_ChecksumDetectsEveryMutation ==
    ck.at = "verified" => (ck.verified <=> Content(ck.q[1]) = Content(ck.p))

\* ------------------------------------------------------------- UdpTransport
\* Calls made on a transport driven directly.
MaxOps == 4
\* Datagrams the socket of the stand-alone UdpTransport holds at most.
WireCap == 2
\* Local ports a transport is bound to.
Ports == {9001, 9002}

\* config.max_packet_age in milliseconds (NetworkConfig::default)
max_packet_age == 100

\* NetworkPacket::is_stale
is_stale(age, max_age) == age > max_age

\* The bytes of a datagram: a serialized packet (send_timestamp is not on the
\* wire), or bytes that bincode cannot decode.
Garbage == [undecodable |-> TRUE]

serialize(p) == Content(p) @@ [checksum |-> p.checksum]

\* UdpTransport::serialize_packet: the checksum is recomputed before serializing.
serialize_packet(p) == serialize([p EXCEPT !.checksum = calculate_checksum(p)])

\* UdpTransport::deserialize_packet. The decoded packet's send_timestamp is
\* Instant::now() at decoding (serde default), so its age at the test is 0.
UdpTransport_deserialize_packet(bytes) ==
    IF bytes = Garbage THEN [err |-> "InvalidPacketFormat", packet |-> None]
    ELSE LET packet == bytes @@ [send_timestamp |-> 0]
         IN  IF packet.protocol_version # 1
             THEN [err |-> "InvalidPacketFormat", packet |-> None]
             ELSE IF ~verify_checksum(packet)
             THEN [err |-> "CorruptedPacket", packet |-> None]
             ELSE IF is_stale(0, max_packet_age)
             THEN [err |-> "PacketTooOld", packet |-> None]
             ELSE [err |-> "Ok", packet |-> Some(packet)]

\* The packets the caller of a transport sends, well formed or not: either
\* version, a checksum that is right or off by one, built `age` milliseconds
\* before time 0, with a sequence number of seqs.
TestPackets(ages, seqs) ==
    {NetworkPacket(c, 0 - age, (calculate_checksum(c) + off) % U32) :
        c \in {[protocol_version |-> v, packet_type |-> "Audio", sender_id |-> 0,
                session_id |-> 0, sequence_number |-> n, original_sample_count |-> 0,
                data |-> <<1>>] : v \in {1, 2}, n \in seqs},
        age \in ages, off \in {0, 1}}

\* What another host can put in the socket.
WireBytes == {Garbage} \cup {serialize(p) : p \in TestPackets({0}, {0})}

UdpCall(op, result, value) == [op |-> op, result |-> result, value |-> value]

UdpOthers == UNCHANGED <<jbvars, mgrvars, ck, sim, playback, capture, pipeline>>

\* UdpTransport::bind(local_port); the operating system grants the port or not.
UdpBind ==
    /\ udp.ops < MaxOps
    /\ \E local_port \in Ports, granted \in BOOLEAN :
         udp' = IF udp.socket # None
                THEN [udp EXCEPT !.ops = @ + 1, !.last = UdpCall("bind", "InvalidState", None)]
                ELSE IF ~granted
                THEN [udp EXCEPT !.ops = @ + 1, !.last = UdpCall("bind", "BindError", None)]
                ELSE [udp EXCEPT !.ops = @ + 1, !.socket = Some(local_port),
                                 !.local_addr = Some(local_port), !.is_active = TRUE,
                                 !.last = UdpCall("bind", "Ok", None)]
    /\ UdpOthers

\* UdpTransport::send_packet(packet, target_addr); a datagram sent to the
\* transport's own port comes back into its socket.
UdpSend ==
    /\ udp.ops < MaxOps
    /\ \E packet \in TestPackets({0}, {0}), target_addr \in Ports, sent \in BOOLEAN :
         udp' = IF udp.socket = None
                THEN [udp EXCEPT !.ops = @ + 1,
                                 !.last = UdpCall("send_packet", "InvalidState", None)]
                ELSE IF ~sent
                THEN [udp EXCEPT !.ops = @ + 1,
                                 !.last = UdpCall("send_packet", "IoError", None)]
                ELSE [udp EXCEPT !.ops = @ + 1,
                                 !.stats.packets_sent = @ + 1,
                                 !.wire = IF Some(target_addr) = udp.local_addr
                                             /\ Len(udp.wire) < WireCap
                                          THEN Append(@, serialize_packet(packet))
                                          ELSE @,
                                 !.last = UdpCall("send_packet", "Ok", None)]
    /\ UdpOthers

\* UdpTransport::receive_packet: the next datagram, or Timeout after
\* connection_timeout with none.
UdpReceive ==
    /\ udp.ops < MaxOps
    /\ udp' = IF udp.socket = None
              THEN [udp EXCEPT !.ops = @ + 1,
                               !.last = UdpCall("receive_packet", "InvalidState", None)]
              ELSE IF udp.wire = <<>>
              THEN [udp EXCEPT !.ops = @ + 1,
                               !.last = UdpCall("receive_packet", "Timeout", None)]
              ELSE LET r == UdpTransport_deserialize_packet(Head(udp.wire))
                   IN  [udp EXCEPT !.ops = @ + 1, !.wire = Tail(@),
                                   !.stats.packets_received =
                                       IF r.err = "Ok" THEN @ + 1 ELSE @,
                                   !.last = UdpCall("receive_packet", r.err, r.packet)]
    /\ UdpOthers

\* UdpTransport::shutdown: the socket is dropped with what it holds, stats reset.
UdpShutdown ==
    /\ udp.ops < MaxOps
    /\ udp' = [udp EXCEPT !.ops = @ + 1, !.socket = None, !.local_addr = None,
                          !.is_active = FALSE, !.stats = NetworkStats_new,
                          !.wire = <<>>, !.last = UdpCall("shutdown", "Ok", None)]
    /\ UdpOthers

\* A datagram from another host reaches the bound socket.
UdpArrive ==
    /\ udp.socket # None /\ Len(udp.wire) < WireCap
    /\ \E bytes \in WireBytes : udp' = [udp EXCEPT !.wire = Append(@, bytes)]
    /\ UdpOthers

InitUdp == udp = UdpTransport_new /\ InitOthers("udp")

NextUdp == UdpBind \/ UdpSend \/ UdpReceive \/ UdpShutdown \/ UdpArrive

SpecUdp == InitUdp /\ [][NextUdp]_vars

\* receive_packet is called on the bound transport and takes the next datagram.
UdpReceives ==
    /\ udp.socket # None /\ udp.wire # <<>>
    /\ udp'.ops = udp.ops + 1 /\ udp'.last.op = "receive_packet"

\* The next datagram decodes, has protocol version 1 and fails verify_checksum.
UdpNextFailsChecksum ==
    /\ Head(udp.wire) # Garbage
    /\ Head(udp.wire).protocol_version = 1
    /\ ~verify_checksum(Head(udp.wire))

\* C21: a received packet that fails checksum verification is not returned to the
\* caller of receive_packet and increments packets_corrupted by exactly one.
C21_CorruptedDroppedAndCounted ==
    [][(UdpReceives /\ UdpNextFailsChecksum) =>
          /\ udp'.last.value = None
          /\ udp'.stats.packets_corrupted = udp.stats.packets_corrupted + 1]_vars

\* ------------------------------------------------------- SimulatedTransport
\* NetworkPacket::age at time 0 of the model's clock
age(p) == 0 - p.send_timestamp

SimCall(op, result, value) == [op |-> op, result |-> result, value |-> value]

SimOthers == UNCHANGED <<jbvars, mgrvars, ck, udp, playback, capture, pipeline>>

\* set_simulation_params; a loss_rate is 0 or a rate strictly between 0 and 1
SimSetParams ==
    /\ sim.ops < MaxOps
    /\ \E loss_rate \in {"zero", "some"} :
         sim' = [sim EXCEPT !.ops = @ + 1, !.loss_rate = loss_rate,
                            !.last = SimCall("set_simulation_params", "Ok", None)]
    /\ SimOthers

\* SimulatedTransport::bind
SimBind ==
    /\ sim.ops < MaxOps
    /\ \E local_port \in Ports :
         sim' = [sim EXCEPT !.ops = @ + 1, !.local_addr = Some(local_port),
                            !.is_active = TRUE, !.last = SimCall("bind", "Ok", None)]
    /\ SimOthers

\* simulate_loopback(packet, target_addr) with the outcome of the loss roll
simulate_loopback(t, packet, target_addr, lost) ==
    IF lost
    THEN [t EXCEPT !.stats.packets_lost = @ + 1]
    ELSE [t EXCEPT !.receive_queue = Append(@, <<packet, target_addr>>),
                   !.stats.packets_sent = @ + 1]

\* SimulatedTransport::send_packet; corruption_rate is 0.0 and nothing sets it, so
\* the corruption roll never succeeds. The packets sent carry the sequence numbers
\* 1, 2, ... in the order of the successful sends.
SimSend ==
    /\ sim.ops < MaxOps
    /\ \E packet \in TestPackets({0, max_packet_age, max_packet_age + 1}, {sim.sends_ok + 1}),
          target_addr \in Ports,
          lost \in IF sim.loss_rate = "zero" THEN {FALSE} ELSE BOOLEAN :
         sim' = IF ~sim.is_active
                THEN [sim EXCEPT !.ops = @ + 1,
                                 !.last = SimCall("send_packet", "InvalidState", None)]
                ELSE [simulate_loopback(sim, packet, target_addr, lost)
                         EXCEPT !.ops = @ + 1, !.sends_ok = @ + 1,
                                !.last = SimCall("send_packet", "Ok", None)]
    /\ SimOthers

\* SimulatedTransport::receive_packet: the head of receive_queue, or Timeout
\* after connection_timeout with an empty queue.
SimReceive ==
    /\ sim.ops < MaxOps
    /\ sim' = IF ~sim.is_active
              THEN [sim EXCEPT !.ops = @ + 1,
                               !.last = SimCall("receive_packet", "InvalidState", None)]
              ELSE IF sim.receive_queue = <<>>
              THEN [sim EXCEPT !.ops = @ + 1,
                               !.last = SimCall("receive_packet", "Timeout", None)]
              ELSE [sim EXCEPT !.ops = @ + 1, !.receive_queue = Tail(@),
                               !.stats.packets_received = @ + 1,
                               !.received = Append(@, Head(sim.receive_queue)[1].sequence_number),
                               !.last = SimCall("receive_packet", "Ok",
                                                Some(Head(sim.receive_queue)))]
    /\ SimOthers

\* SimulatedTransport::shutdown; the counts of sends and receives start again
\* with the statistics.
SimShutdown ==
    /\ sim.ops < MaxOps
    /\ sim' = [sim EXCEPT !.ops = @ + 1, !.is_active = FALSE, !.receive_queue = <<>>,
                          !.stats = NetworkStats_new, !.sends_ok = 0, !.received = <<>>,
                          !.last = SimCall("shutdown", "Ok", None)]
    /\ SimOthers

InitSim == sim = SimulatedTransport_new /\ InitOthers("sim")

NextSim == SimSetParams \/ SimBind \/ SimSend \/ SimReceive \/ SimShutdown

SpecSim == InitSim /\ [][NextSim]_vars

\* receive_packet is called on the active simulated transport with a packet queued.
SimReceives ==
    /\ sim.is_active /\ sim.receive_queue # <<>>
    /\ sim'.ops = sim.ops + 1 /\ sim'.last.op = "receive_packet"

\* C22: a transport recv returns the next packet only if its protocol_version is
\* 1, its stored checksum equals the recomputed one and its age is at most
\* max_packet_age; otherwise it fails with InvalidPacketFormat, CorruptedPacket or
\* PacketTooOld respectively and packets_received is not incremented. Stated for
\* SimulatedTransport::receive_packet.
C22_RecvValidatesPacket ==
    [][SimReceives =>
        LET p == Head(sim.receive_queue)[1]
            rejected(e) == /\ sim'.last.result = e /\ sim'.last.value = None
                           /\ sim'.stats.packets_received = sim.stats.packets_received
        IN  IF p.protocol_version # 1 THEN rejected("InvalidPacketFormat")
            ELSE IF ~verify_checksum(p) THEN rejected("CorruptedPacket")
            ELSE IF age(p) > max_packet_age THEN rejected("PacketTooOld")
            ELSE /\ sim'.last.result = "Ok"
                 /\ sim'.last.value = Some(Head(sim.receive_queue))
                 /\ sim'.stats.packets_received = sim.stats.packets_received + 1]_vars

\* bind is called on the simulated transport.
SimBinds == sim'.ops = sim.ops + 1 /\ sim'.last.op = "bind"

\* C23: bind on a transport that is already bound fails and leaves the local
\* address and the active flag unchanged; bind succeeds on a transport that is not
\* bound, as it is after shutdown. Stated for SimulatedTransport::bind.
C23_BindRefusedWhenBound ==
    [][SimBinds =>
        IF sim.is_active
        THEN /\ sim'.last.result # "Ok"
             /\ sim'.local_addr = sim.local_addr /\ sim'.is_active
        ELSE sim'.last.result = "Ok" /\ sim'.is_active]_vars

\* ------------------------------------------------------------- CpalPlayback
\* config.receive_buffer_size of the playback
PlaybackBufferSize == 2
\* config.samples_per_frame()
SamplesPerFrame == 2
\* Largest output.len() the device asks the callback for.
MaxOutput == 3
\* Calls the control task makes on the playback.
MaxPlaybackCalls == 5
\* Runs of the output callback.
MaxCallbacks == 3

\* AudioFrame with sequence number n: its samples carry n, silence is 0.
FrameSamples(n) == [i \in 1..SamplesPerFrame |-> n]

\* Who holds the frame_buffer mutex, the frames_played mutex, the underruns mutex:
\* the control task inside play_frame or flush_buffer, resp. get_stats. The callback
\* takes them with try_lock within one step.
frame_buffer_locked(pb) == pb.task.at \in {"play_frame", "flush_buffer"}

frames_played_locked(pb) == pb.task.at = "get_stats_frames"

underruns_locked(pb) == pb.task.at = "get_stats_underruns"

PbCall(op, result, value) == [op |-> op, result |-> result, value |-> value]

PbOthers == UNCHANGED <<jbvars, mgrvars, ck, udp, sim, capture, pipeline>>

PbBegin == playback.task.at = "idle" /\ playback.calls < MaxPlaybackCalls

\* CpalPlayback::start: nothing when already playing; else the stream is built,
\* with a new output_buffer, and played, or the device refuses.
CpalPlayback_start(pb, device_ok) ==
    IF pb.is_playing THEN [self |-> pb, result |-> "Ok"]
    ELSE IF ~device_ok THEN [self |-> pb, result |-> "ConfigError"]
    ELSE [self |-> [pb EXCEPT !.stream = TRUE, !.is_playing = TRUE, !.output_buffer = <<>>],
          result |-> "Ok"]

\* CpalPlayback::stop: nothing when not playing; else the stream is taken and
\* paused, and a pause that fails leaves is_playing set.
CpalPlayback_stop(pb, pause_ok) ==
    IF ~pb.is_playing THEN [self |-> pb, result |-> "Ok"]
    ELSE IF pb.stream /\ ~pause_ok
    THEN [self |-> [pb EXCEPT !.stream = FALSE], result |-> "ConfigError"]
    ELSE [self |-> [pb EXCEPT !.stream = FALSE, !.is_playing = FALSE], result |-> "Ok"]

\* start()
PbStart ==
    /\ PbBegin
    /\ \E device_ok \in BOOLEAN :
         LET r == CpalPlayback_start(playback, device_ok)
         IN  playback' = [r.self EXCEPT !.calls = @ + 1,
                                         !.last = PbCall("start", r.result, None)]
    /\ PbOthers

\* stop()
PbStop ==
    /\ PbBegin /\ playback.callback.at = "idle"
    /\ \E pause_ok \in BOOLEAN :
         LET r == CpalPlayback_stop(playback, pause_ok)
         IN  playback' = [r.self EXCEPT !.calls = @ + 1,
                                         !.last = PbCall("stop", r.result, None)]
    /\ PbOthers

\* play_frame(frame): frame_buffer.lock().await succeeds
PlayFrameLock ==
    /\ PbBegin
    /\ playback' = [playback EXCEPT
           !.calls = @ + 1,
           !.next_seq = @ + 1,
           !.task = [at |-> "play_frame", frame |-> playback.next_seq]]
    /\ PbOthers

\* play_frame queueing the new frame ahead of the queued ones.
PlayFrameBody_pushes_in_front ==
    /\ playback.task.at = "play_frame"
    /\ LET frame == playback.task.frame
           done == [at |-> "idle", frame |-> 0]
       IN  playback' =
             IF Len(playback.frame_buffer) >= PlaybackBufferSize
             THEN [playback EXCEPT
                     !.frame_buffer = Tail(@),
                     !.removed = @ \cup {Head(playback.frame_buffer)},
                     !.rejected = @ \cup {frame},
                     !.task = done,
                     !.last = PbCall("play_frame", "BufferOverflow", frame)]
             ELSE [playback EXCEPT
                     !.frame_buffer = <<frame>> \o @,
                     !.accepted = Append(@, frame),
                     !.task = done,
                     !.last = PbCall("play_frame", "Ok", frame)]
    /\ PbOthers

\* play_frame, with the guard held: a full queue loses its oldest frame and the
\* call returns BufferOverflow before the push; otherwise the frame is pushed.
PlayFrameBody ==
    /\ playback.task.at = "play_frame"
    /\ LET frame == playback.task.frame
           done == [at |-> "idle", frame |-> 0]
       IN  playback' =
             IF Len(playback.frame_buffer) >= PlaybackBufferSize
             THEN [playback EXCEPT
                     !.frame_buffer = Tail(@),
                     !.removed = @ \cup {Head(playback.frame_buffer)},
                     !.rejected = @ \cup {frame},
                     !.task = done,
                     !.last = PbCall("play_frame", "BufferOverflow", frame)]
             ELSE [playback EXCEPT
                     !.frame_buffer = Append(@, frame),
                     !.accepted = Append(@, frame),
                     !.task = done,
                     !.last = PbCall("play_frame", "Ok", frame)]
    /\ PbOthers

\* flush_buffer(): frame_buffer.lock().await succeeds
FlushLock ==
    /\ PbBegin
    /\ playback' = [playback EXCEPT !.calls = @ + 1,
                                    !.task = [at |-> "flush_buffer", frame |-> 0]]
    /\ PbOthers

\* flush_buffer, with the guard held
FlushBody ==
    /\ playback.task.at = "flush_buffer"
    /\ playback' = [playback EXCEPT
           !.removed = @ \cup {playback.frame_buffer[i] : i \in 1..Len(playback.frame_buffer)},
           !.frame_buffer = <<>>,
           !.task = [at |-> "idle", frame |-> 0],
           !.last = PbCall("flush_buffer", "Ok", None)]
    /\ PbOthers

\* buffer_level(): try_lock fails only while the callback holds the guard.
BufferLevel ==
    /\ PbBegin
    /\ \E locked \in BOOLEAN :
         /\ locked => playback.callback.at = "filling"
         /\ playback' = [playback EXCEPT
                !.calls = @ + 1,
                !.last = PbCall("buffer_level", "Ok",
                                IF locked THEN 0 ELSE Len(playback.frame_buffer))]
    /\ PbOthers

\* get_stats(): the three steps of reading frames_played, then underruns.
GetStatsFrames ==
    /\ PbBegin
    /\ playback' = [playback EXCEPT !.calls = @ + 1,
                                    !.task = [at |-> "get_stats_frames", frame |-> 0]]
    /\ PbOthers

GetStatsUnderruns ==
    /\ playback.task.at = "get_stats_frames"
    /\ playback' = [playback EXCEPT
           !.task = [at |-> "get_stats_underruns", frame |-> playback.frames_played]]
    /\ PbOthers

GetStatsReturn ==
    /\ playback.task.at = "get_stats_underruns"
    /\ playback' = [playback EXCEPT
           !.task = [at |-> "idle", frame |-> 0],
           !.last = PbCall("get_stats", "Ok", <<playback.task.frame, playback.underruns>>)]
    /\ PbOthers

\* The last loop of fill_output_buffer_f32: every output sample is the front of
\* sample_buffer, or silence.
fill_output(need, sample_buffer) ==
    [output |-> [i \in 1..need |-> IF i <= Len(sample_buffer) THEN sample_buffer[i] ELSE 0],
     rest   |-> SubSeq(sample_buffer, need + 1, Len(sample_buffer))]

CallbackReturn(pb, why) ==
    LET f == fill_output(pb.callback.need, pb.output_buffer)
    IN  [pb EXCEPT !.output = f.output, !.output_buffer = f.rest,
                   !.callback = [at |-> "idle", need |-> 0, why |-> why]]

\* The device calls the output callback for need samples.
CallbackBegin ==
    /\ playback.stream /\ playback.callback.at = "idle"
    /\ playback.callbacks < MaxCallbacks
    /\ \E need \in 1..MaxOutput :
         playback' = [playback EXCEPT !.callbacks = @ + 1,
                                      !.callback = [at |-> "filling", need |-> need,
                                                    why |-> "running"]]
    /\ PbOthers

\* One turn of the while loop of fill_output_buffer_f32; a turn that breaks, and
\* the loop test failing, go on to fill the output and return.
CallbackStep ==
    /\ playback.callback.at = "filling"
    /\ playback' =
         IF Len(playback.output_buffer) >= playback.callback.need
         THEN CallbackReturn(playback, "enough")
         ELSE IF frame_buffer_locked(playback)
         THEN CallbackReturn(playback, "locked")
         ELSE IF playback.frame_buffer # <<>>
         THEN LET frame == Head(playback.frame_buffer)
              IN  [playback EXCEPT
                     !.frame_buffer = Tail(@),
                     !.output_buffer = @ \o FrameSamples(frame),
                     !.consumed = Append(@, frame),
                     !.frames_played = IF frames_played_locked(playback) THEN @ ELSE @ + 1]
         ELSE CallbackReturn(
                 [playback EXCEPT
                     !.underruns = IF underruns_locked(playback) THEN @ ELSE @ + 1],
                 "underrun")
    /\ PbOthers

InitPlayback == InitOthers("playback") /\ playback = CpalPlayback_new

NextPlayback ==
    \/ PbStart
    \/ PbStop
    \/ PlayFrameLock
    \/ PlayFrameBody
    \/ FlushLock
    \/ FlushBody
    \/ BufferLevel
    \/ GetStatsFrames
    \/ GetStatsUnderruns
    \/ GetStatsReturn
    \/ CallbackBegin
    \/ CallbackStep

SpecPlayback == InitPlayback /\ [][NextPlayback]_vars

\* ------------------------------------------------------- claims on CpalPlayback
\* A step in which play_frame returns.
PlayFrameReturns == playback.task.at = "play_frame" /\ playback'.task.at = "idle"

\* C24: play_frame on a queue that already holds receive_buffer_size frames
\* drops the oldest queued frame, puts the new frame at the tail and returns
\* BufferOverflow, so that the queue still holds receive_buffer_size frames and
\* the newest frame is among them.
C24_OverflowKeepsNewest ==
    [][(PlayFrameReturns /\ Len(playback.frame_buffer) = PlaybackBufferSize)
         => /\ playback'.last.result = "BufferOverflow"
            /\ playback'.frame_buffer
                 = Append(Tail(playback.frame_buffer), playback.task.frame)
            /\ Len(playback'.frame_buffer) = PlaybackBufferSize]_vars

\* The frames of s that are not in the set gone, in the order of s.
Without(s, gone) == SelectSeq(s, LAMBDA f : f \notin gone)

\* C25: under every interleaving of play_frame calls and callbacks, the callback
\* takes the frames in the order play_frame accepted them, skipping only the
\* frames the overflow policy (or a flush) removed; buffer_level never reports
\* more than receive_buffer_size, and the queue is empty after flush_buffer.
C25_FifoAndBoundedDepth ==
    /\ playback.consumed \o playback.frame_buffer
         = Without(playback.accepted, playback.removed)
    /\ Len(playback.frame_buffer) <= PlaybackBufferSize
    /\ playback.last.op = "buffer_level" => playback.last.value <= PlaybackBufferSize
    /\ playback.last.op = "flush_buffer" => playback.frame_buffer = <<>>

\* C25 witness: the callback has taken two frames after the overflow policy
\* removed one, and an underrun put silence into the output.
C25_Witness ==
    /\ Len(playback.consumed) >= 2
    /\ playback.rejected # {}
    /\ playback.removed # {}
    /\ playback.underruns > 0

\* A step in which the callback returns for want of a queued frame.
CallbackStarved ==
    /\ playback.callback.at = "filling" /\ playback'.callback.at = "idle"
    /\ Len(playback.output_buffer) < playback.callback.need
    /\ playback.frame_buffer = <<>>

\* C26: whenever the callback needs samples and the frame queue is empty, it
\* fills the missing output samples with zeros and counts one underrun, also
\* while the control task holds the queue lock or the counter lock.
C26_UnderrunCountedUnderLock ==
    [][CallbackStarved
         => /\ playback'.underruns = playback.underruns + 1
            /\ playback'.output
                 = fill_output(playback.callback.need, playback.output_buffer).output]_vars

\* --------------------------------------------------------------- CpalCapture
\* Capacity of the channel between the input callback and next_frame.
CaptureQueueCapacity == 10
\* Runs of the input callback.
MaxCaptureCallbacks == 7
\* Calls the control task makes on the capture.
MaxCaptureCalls == 3

\* The configurations AudioConfig::validate accepts, at the ends of its ranges
\* and at the defaults.
ValidConfigs ==
    [sample_rate : {8000, 48000}, frame_duration_ms : {10, 20, 60}, channels : {1, 2}]

\* AudioConfig::samples_per_frame: the product and the quotient are exact in
\* f32 for every valid configuration, and the cast truncates.
samples_per_frame(config) == (config.sample_rate * config.frame_duration_ms) \div 1000

\* The length test of OpusCodec::encode
encode_accepts(config, frame) ==
    frame.samples = samples_per_frame(config) * config.channels

\* Lengths of the slices the device hands to the input callback.
DataLengths(config) ==
    {samples_per_frame(config) \div 2, samples_per_frame(config),
     2 * samples_per_frame(config)}

AudioFrame_new(samples, sequence_number) ==
    [samples |-> samples, sequence_number |-> sequence_number]

CapOthers == UNCHANGED <<jbvars, mgrvars, ck, udp, sim, playback, pipeline>>

CapBegin == capture.calls < MaxCaptureCalls

\* CpalCapture::start: nothing when already recording; else the stream is built,
\* with a new sample_buffer, and played, or the device refuses.
CpalCapture_start(c, device_ok) ==
    IF c.is_recording THEN [self |-> c, result |-> "Ok"]
    ELSE IF ~device_ok THEN [self |-> c, result |-> "ConfigError"]
    ELSE [self |-> [c EXCEPT !.stream = TRUE, !.is_recording = TRUE, !.sample_buffer = 0],
          result |-> "Ok"]

\* CpalCapture::stop: nothing when not recording; else the stream is taken and
\* paused, and a pause that fails leaves is_recording set.
CpalCapture_stop(c, pause_ok) ==
    IF ~c.is_recording THEN [self |-> c, result |-> "Ok"]
    ELSE IF c.stream /\ ~pause_ok
    THEN [self |-> [c EXCEPT !.stream = FALSE], result |-> "ConfigError"]
    ELSE [self |-> [c EXCEPT !.stream = FALSE, !.is_recording = FALSE], result |-> "Ok"]

\* start()
CapStart ==
    /\ CapBegin /\ capture.callback.at = "idle"
    /\ \E device_ok \in BOOLEAN :
         LET r == CpalCapture_start(capture, device_ok)
         IN  capture' = [r.self EXCEPT !.calls = @ + 1, !.step = "start",
                                        !.last = PbCall("start", r.result, None)]
    /\ CapOthers

\* stop()
CapStop ==
    /\ CapBegin /\ capture.callback.at = "idle"
    /\ \E pause_ok \in BOOLEAN :
         LET r == CpalCapture_stop(capture, pause_ok)
         IN  capture' = [r.self EXCEPT !.calls = @ + 1, !.step = "stop",
                                        !.last = PbCall("stop", r.result, None)]
    /\ CapOthers

\* The device calls the input callback with a slice of samples.
CapData ==
    /\ capture.stream /\ capture.callback.at = "idle"
    /\ capture.callbacks < MaxCaptureCallbacks
    /\ \E n \in DataLengths(capture.config) :
         capture' = [capture EXCEPT !.callbacks = @ + 1, !.step = "data",
                                    !.callback = [at |-> "processing", data |-> n]]
    /\ CapOthers

\* process_samples_f32, up to the sample that completes a frame or to the end of
\* the slice: the frame takes the next sequence number and goes to try_send,
\* which refuses it when the channel is full.
CapProcess ==
    /\ capture.callback.at = "processing"
    /\ LET spf    == samples_per_frame(capture.config)
           taken  == IF capture.callback.data < spf - capture.sample_buffer
                     THEN capture.callback.data ELSE spf - capture.sample_buffer
           rest   == capture.callback.data - taken
           after  == [at |-> IF rest = 0 THEN "idle" ELSE "processing", data |-> rest]
           frame  == AudioFrame_new(capture.sample_buffer + taken, capture.sequence_counter)
       IN  capture' =
             IF capture.sample_buffer + taken < spf
             THEN [capture EXCEPT !.sample_buffer = @ + taken, !.callback = after,
                                  !.step = "gathered"]
             ELSE IF Len(capture.queue) >= CaptureQueueCapacity
             THEN [capture EXCEPT !.sample_buffer = 0, !.callback = after,
                                  !.sequence_counter = @ + 1,
                                  !.frames = @ + 1, !.dropped = @ + 1,
                                  !.step = "refused"]
             ELSE [capture EXCEPT !.sample_buffer = 0, !.callback = after,
                                  !.sequence_counter = @ + 1,
                                  !.frames = @ + 1,
                                  !.queue = Append(@, frame),
                                  !.step = "queued"]
    /\ CapOthers

\* next_frame(): recv().await returns the oldest frame of the channel once there
\* is one; the capture keeps a sender, so the channel never closes.
NextFrame ==
    /\ CapBegin /\ capture.queue # <<>>
    /\ capture' = [capture EXCEPT !.calls = @ + 1, !.step = "next_frame",
                                  !.queue = Tail(@),
                                  !.last = PbCall("next_frame", "Ok", Head(capture.queue))]
    /\ CapOthers

InitCapture ==
    /\ InitOthers("capture")
    /\ \E config \in ValidConfigs : capture = CpalCapture_new(config)

NextCapture ==
    \/ CapStart
    \/ CapStop
    \/ CapData
    \/ CapProcess
    \/ NextFrame

SpecCapture == InitCapture /\ [][NextCapture]_vars

\* -------------------------------------------------------- claims on CpalCapture
\* A step in which the callback completes a frame while the channel is full.
FrameCompletesOnFullQueue ==
    /\ capture.callback.at = "processing"
    /\ capture'.frames = capture.frames + 1
    /\ Len(capture.queue) = CaptureQueueCapacity

\* The counters the capture keeps.
CaptureCounters(c) == [sequence_counter |-> c.sequence_counter]

\* C27: when a frame completes while the capture queue already holds 10 frames,
\* the new frame is discarded, the queued frames stay as they are and in order,
\* and a counter of the capture, which holds the number of frames dropped, goes
\* up by one.
C27_DropNewestAndCount ==
    [][FrameCompletesOnFullQueue
         => /\ capture'.queue = capture.queue
            /\ \E k \in DOMAIN CaptureCounters(capture) :
                 /\ CaptureCounters(capture')[k] = CaptureCounters(capture)[k] + 1
                 /\ CaptureCounters(capture')[k] = capture'.dropped]_vars

\* C28: every frame the capture produces under a valid configuration C has
\* C.sample_rate * C.frame_duration_ms / 1000 * C.channels samples, for one and
\* for two channels, and this is the length encode requires.
C28_FrameLengthMatchesEncode ==
    \A i \in 1..Len(capture.queue) :
        /\ capture.queue[i].samples
             = ((capture.config.sample_rate * capture.config.frame_duration_ms) \div 1000)
                 * capture.config.channels
        /\ encode_accepts(capture.config, capture.queue[i])

\* C30: after N successful send_packet calls on an active SimulatedTransport
\* stats.packets_sent is N, whatever the loss roll dropped, and the packets that
\* were not dropped are received in the order they were sent.
C30_SentCountsEverySend ==
    /\ sim.stats.packets_sent = sim.sends_ok
    /\ \A i, j \in 1..Len(sim.received) : i < j => sim.received[i] < sim.received[j]

\* ---------------------------------------------------------- AudioPipelineImpl
\* Calls of start and stop made on the pipeline.
MaxPipelineCalls == 12

PipeOthers == UNCHANGED <<jbvars, mgrvars, ck, udp, sim>>

PipeBegin == pipeline.task = "idle" /\ pipeline.calls < MaxPipelineCalls

PipeReturn(op, result) ==
    [pipeline EXCEPT !.task = "idle", !.last = [op |-> op, result |-> result, value |-> None]]

\* AudioPipelineImpl::start up to its sleep: nothing on a running pipeline, else
\* playback.start()?.
PipelineStart ==
    /\ PipeBegin
    /\ \E device_ok \in BOOLEAN :
         LET r == CpalPlayback_start(playback, device_ok)
             called == [pipeline EXCEPT !.calls = @ + 1]
         IN  IF pipeline.is_running
             THEN /\ pipeline' = [called EXCEPT !.last = [op |-> "start", result |-> "Ok",
                                                          value |-> None]]
                  /\ UNCHANGED playback
             ELSE /\ playback' = r.self
                  /\ pipeline' = IF r.result # "Ok"
                                 THEN [called EXCEPT !.last = [op |-> "start",
                                                               result |-> r.result,
                                                               value |-> None]]
                                 ELSE [called EXCEPT !.task = "start_capture",
                                                     !.last = [op |-> "start",
                                                               result |-> "pending",
                                                               value |-> None]]
    /\ UNCHANGED capture
    /\ PipeOthers

\* AudioPipelineImpl::start after its sleep: capture.start()?, is_running := true.
PipelineStartCapture ==
    /\ pipeline.task = "start_capture"
    /\ \E device_ok \in BOOLEAN :
         LET r == CpalCapture_start(capture, device_ok)
         IN  /\ capture' = r.self
             /\ pipeline' = IF r.result # "Ok" THEN PipeReturn("start", r.result)
                            ELSE [PipeReturn("start", "Ok") EXCEPT !.is_running = TRUE]
    /\ UNCHANGED playback
    /\ PipeOthers

\* Mutant of PipelineStop: the playback is stopped first, the capture after the sleep.
PipelineStop_playback_first ==
    /\ PipeBegin
    /\ \E pause_ok \in BOOLEAN :
         LET r == CpalPlayback_stop(playback, pause_ok)
             called == [pipeline EXCEPT !.calls = @ + 1]
         IN  IF ~pipeline.is_running
             THEN /\ pipeline' = [called EXCEPT !.last = [op |-> "stop", result |-> "Ok",
                                                          value |-> None]]
                  /\ UNCHANGED playback
             ELSE /\ playback' = r.self
                  /\ pipeline' = IF r.result # "Ok"
                                 THEN [called EXCEPT !.last = [op |-> "stop",
                                                               result |-> r.result,
                                                               value |-> None]]
                                 ELSE [called EXCEPT !.task = "stop_playback",
                                                     !.last = [op |-> "stop",
                                                               result |-> "pending",
                                                               value |-> None]]
    /\ UNCHANGED capture
    /\ PipeOthers

\* AudioPipelineImpl::stop up to its sleep: nothing on a stopped pipeline, else
\* capture.stop()?.
PipelineStop ==
    /\ PipeBegin
    /\ \E pause_ok \in BOOLEAN :
         LET r == CpalCapture_stop(capture, pause_ok)
             called == [pipeline EXCEPT !.calls = @ + 1]
         IN  IF ~pipeline.is_running
             THEN /\ pipeline' = [called EXCEPT !.last = [op |-> "stop", result |-> "Ok",
                                                          value |-> None]]
                  /\ UNCHANGED capture
             ELSE /\ capture' = r.self
                  /\ pipeline' = IF r.result # "Ok"
                                 THEN [called EXCEPT !.last = [op |-> "stop",
                                                               result |-> r.result,
                                                               value |-> None]]
                                 ELSE [called EXCEPT !.task = "stop_playback",
                                                     !.last = [op |-> "stop",
                                                               result |-> "pending",
                                                               value |-> None]]
    /\ UNCHANGED playback
    /\ PipeOthers

\* AudioPipelineImpl::stop after its sleep: playback.stop()?, is_running := false.
PipelineStopPlayback ==
    /\ pipeline.task = "stop_playback"
    /\ \E pause_ok \in BOOLEAN :
         LET r == CpalPlayback_stop(playback, pause_ok)
         IN  /\ playback' = r.self
             /\ pipeline' = IF r.result # "Ok" THEN PipeReturn("stop", r.result)
                            ELSE [PipeReturn("stop", "Ok") EXCEPT !.is_running = FALSE]
    /\ UNCHANGED capture
    /\ PipeOthers

InitPipeline == InitOthers("pipeline") /\ pipeline = AudioPipelineImpl_new

NextPipeline ==
    \/ PipelineStart
    \/ PipelineStartCapture
    \/ PipelineStop
    \/ PipelineStopPlayback

SpecPipeline == InitPipeline /\ [][NextPipeline]_vars

\* ------------------------------------------------- claims on AudioPipelineImpl
\* C31: the pipeline starts the playback before the capture and stops the
\* capture before the playback; start on a running pipeline and stop on a
\* stopped one change nothing; so the capture runs only while the playback runs.
C31_CaptureOnlyWhilePlayback ==
    /\ capture.is_recording => playback.is_playing
    /\ [][/\ capture'.is_recording => playback'.is_playing
          /\ (~capture.is_recording /\ capture'.is_recording) => playback.is_playing
          /\ (playback.is_playing /\ ~playback'.is_playing) => ~capture.is_recording
          /\ (/\ pipeline'.calls = pipeline.calls + 1
              /\ \/ pipeline'.last.op = "start" /\ pipeline.is_running
                 \/ pipeline'.last.op = "stop" /\ ~pipeline.is_running)
               => /\ pipeline'.last.result = "Ok"
                  /\ pipeline'.is_running = pipeline.is_running
                  /\ UNCHANGED <<playback, capture>>]_vars

\* C31 witness: a started pipeline in the middle of stop, the capture stopped
\* and the playback still running.
C31_Witness ==
    /\ pipeline.task = "stop_playback" /\ pipeline.is_running
    /\ ~capture.is_recording /\ playback.is_playing

\* -------------------------------------------------- claims on the session, II
\* A call of send_audio made in Connected state.
SendsAudioConnected(m) == Calls(m, "send_audio") /\ is_connected(conn[m])

\* C32: the send sequence counter starts at 0, only a send_audio call made in
\* Connected state changes it, and such a call raises it by one and hands the
\* transport an Audio packet that carries the new count as its sequence (not the
\* sequence of the caller's frame) and the manager's sender_id and session_id;
\* so the n-th such call carries sequence n, across disconnects and reconnects.
C32_NthSendCarriesN ==
    /\ \A m \in Mgr : sequence_counter[m] = 0
    /\ [][\A m \in Mgr :
            /\ SendsAudioConnected(m) =>
                 /\ sequence_counter'[m] = sequence_counter[m] + 1
                 /\ ret'[m].result \in {"Ok", "IoError"}
                 /\ ret'[m].frame = Some([packet_type |-> "Audio",
                                          sequence_number |-> sequence_counter[m] + 1,
                                          sender_id |-> sender_id_of(m),
                                          session_id |-> session_id_of(m),
                                          data |-> 0])
            /\ ~SendsAudioConnected(m) => sequence_counter'[m] = sequence_counter[m]]_vars

\* C32 witness: the second send_audio call made in Connected state has returned,
\* after a first one whose packet the socket refused.
C32_Witness ==
    /\ ret["A"].op = "send_audio" /\ ret["A"].result = "Ok"
    /\ sequence_counter["A"] = 2
    /\ tx["A"].count = 2

SpecClientFair ==
    /\ Init /\ [][NextClientReliable]_vars
    /\ WF_vars(ReceiveAudioRecv("A", Reliable))

\* An Audio packet from the peer is the next datagram of receive_audio, waiting in
\* Connected state.
AudioFromPeerNext(m) ==
    /\ pc[m] = "recv_wait" /\ is_connected(conn[m]) /\ net[m] # <<>>
    /\ deserialize_packet(Head(net[m])) = "Ok"
    /\ Head(net[m]).packet.packet_type = "Audio"
    /\ Some(Head(net[m]).src) = peer_addr(conn[m])

\* C34: a receive_audio call that, in Connected state, gets an Audio packet from
\* the peer eventually returns, however many audio packets the session has
\* received before.
C34_ReceiveAudioReturns == AudioFromPeerNext("A") ~> pc["A"] = "idle"

\* receive_audio of m returns, from its receive loop, the frame of the datagram at
\* the head of the socket's queue.
ReturnsReceivedFrame(m) ==
    /\ pc[m] = "recv_wait" /\ net[m] # <<>>
    /\ pc'[m] = "idle"
    /\ ret'[m].op = "receive_audio" /\ ret'[m].result = "Ok"
    /\ ret'[m].frame # None

\* C35: a frame that receive_audio returns from a received packet is one the
\* jitter buffer accepted, ahead of every sequence already delivered: its sequence
\* number is not below expected_sequence and not that of a stored packet.
C35_ReturnedFramesIncrease ==
    [][\A m \in Mgr :
        ReturnsReceivedFrame(m) =>
            /\ push_packet(receive_buffer[m], Head(net[m]).packet).ret
            /\ ret'[m].frame[1] >= receive_buffer[m].expected_sequence]_vars

\* C36: when a manager becomes Connected, its jitter buffer is as constructed:
\* nothing is stored, expected_sequence is 1, and the Audio packet numbered 1 of
\* the new peer is accepted.
C36_NewSessionStartsAtOne ==
    [][\A m \in Mgr :
        (~is_connected(conn[m]) /\ is_connected(conn'[m])) =>
            /\ receive_buffer'[m].packets = EmptyMap
            /\ receive_buffer'[m].expected_sequence = 1
            /\ push_packet(receive_buffer'[m],
                           new_audio(1, 0, sender_id_of(conn'[m].peer),
                                     session_id_of(conn'[m].peer))).ret]_vars

\* ------------------------------------------- two managers, one in each loop
\* The network delivers a second copy of a Handshake datagram that manager src
\* sent to its peer.
DuplicateHandshake(src, to) ==
    /\ env_sent < MaxEnv
    /\ bound[to] /\ Len(net[to]) < NetCap
    /\ tx[src].count > 0 /\ peer_addr(conn[src]) = Some(to)
    /\ net' = [net EXCEPT ![to] = Append(@, Datagram(src, "ok", create_handshake_packet(src)))]
    /\ env_sent' = env_sent + 1
    /\ UNCHANGED <<conn, bound, sequence_counter, receive_buffer, audio_chan, pc,
                   deadline_passed, ret, calls, tx>>
    /\ NoJB

\* Manager B listens, manager A connects to it and calls receive_audio, on a
\* network that loses nothing, refuses nothing and may deliver A's Handshake more
\* than once; no deadline passes.
NextHandshakes ==
    \/ StartListening("B", Reliable)
    \/ ListenerSteps
    \/ PairConnect
    \/ HandshakeRecv("A")
    \/ ReceiveAudio("A")
    \/ ReceiveAudioRecv("A", Reliable)
    \/ DuplicateHandshake("A", "B")

\* Each manager runs as a task of its own: a receive that can return a datagram
\* does, in start_listening, in perform_handshake and in receive_audio.
SpecHandshakes ==
    /\ Init /\ [][NextHandshakes]_vars
    /\ WF_vars(ListenerSteps)
    /\ WF_vars(HandshakeRecv("A"))
    /\ WF_vars(ReceiveAudioRecv("A", Reliable))

\* B is in the connected loop of start_listening and A in receive_audio, each
\* Connected to the other.
BothInLoops ==
    /\ pc["B"] = "listen_conn" /\ PeerOf("B", "A")
    /\ pc["A"] = "recv_wait" /\ PeerOf("A", "B")

NoHandshakeQueued ==
    \A m \in Mgr : \A i \in 1..Len(net[m]) : net[m][i].packet.packet_type # "Handshake"

\* C37: once B is in the connected loop of start_listening and A in receive_audio,
\* the exchange of Handshake packets comes to an end, also when the network
\* delivers a Handshake twice: from some point on no Handshake is under way.
C37_HandshakeExchangeEnds == [](BothInLoops => <>[]NoHandshakeQueued)

\* connect_to_peer of m returns in this step, with an error.
ConnectToPeerFails(m) ==
    /\ \/ Calls(m, "connect_to_peer")
       \/ pc[m] = "hs_recv" /\ ret[m].op = "connect_to_peer"
    /\ pc'[m] = "idle"
    /\ ret'[m].op = "connect_to_peer" /\ ret'[m].result # "Ok"

\* C38: whenever connect_to_peer returns an error (bind failure, handshake send
\* failure, ConnectionTimeout or a receive error), the connection state after the
\* return is Disconnected.
C38_FailedConnectIsDisconnected ==
    [][\A m \in Mgr : ConnectToPeerFails(m) => conn'[m] = Disconnected]_vars

C40_StoredNotBelowExpected ==
    /\ [](/\ \A s \in DOMAIN buffer.packets : s >= buffer.expected_sequence
          /\ jb_last.op = "pop" =>
               /\ jb_last.out = None <=> jb_last.pre.packets = EmptyMap
               /\ jb_last.out = None => buffer.packets = EmptyMap)
    /\ [][buffer'.expected_sequence >= buffer.expected_sequence]_vars

\* C40 witness: after packets were stored and popped across a gap, a pop on the
\* emptied buffer returns None.
C40_Witness ==
    /\ jb_last.op = "pop" /\ jb_last.out = None
    /\ buffer.packets = EmptyMap
    /\ Len(jb_yielded) >= 2 /\ buffer.lost_packets >= 1

====
